---------------------------- MODULE Spec2Model ----------------------------
(***************************************************************************)
(* Model of the 123 cloud-disk link / JSON record manager:                 *)
(*   - the link codec          (src/utils/link_parser.py),                 *)
(*   - the JSON shape validator (src/utils/json_handler.py),               *)
(*   - the record store         (src/models/json_data.py) with the sort of *)
(*     src/utils/file_sorter.py and the merge entry of src/gui/app.py.     *)
(*                                                                         *)
(* A Python str is a sequence of one-character strings, so that split,     *)
(* strip, startswith, commonprefix and the like are computed as the code   *)
(* computes them.  A JSON number or string in a "size" field is a tagged   *)
(* value (IntV / StrV / NullV), so that int() and string formatting are    *)
(* real conversions.                                                       *)
(***************************************************************************)
EXTENDS Integers, Sequences, FiniteSets, TLC

VARIABLES
    data,       \* JsonData.data: the document held, << >> standing for None
    files,      \* JsonData.files: the shortcut list
    shared,     \* TRUE when files and data["files"] are the same list object
    written,    \* the document the last call wrote with write_json_file, << >> if none
    last,       \* the last store operation and how it ended
    lkFiles,    \* link codec: the record list handed to generate_link
    lkLink,     \* link codec: the link text handed to parse / validate
    lkOut,      \* link codec: results of the calls made so far
    vdDoc,      \* validator: the decoded JSON document (mutated in place)
    vdOut,      \* validator: the call made and its result
    mgIn,       \* merge: the files handed to merge_json_files, in order
    mgOut,      \* merge: the call made and its result
    spDoc,      \* splitter: the document handed to a splitter function
    spArg,      \* splitter: chunk_size / level and the excluded extensions
    spOut,      \* splitter: the call made and its result
    worker,     \* ingestion: the locals and the position of process_link
    dialog,     \* ingestion: progress window, cancel_var, poller, UI thread
    result_queue, \* ingestion: the items put and not yet taken
    fnDoc,      \* sorter / directory index: the document handed over
    fnOut       \* sorter / directory index: the call made and its result

storeVars == <<data, files, shared, written, last>>
linkVars  == <<lkFiles, lkLink, lkOut>>
validVars == <<vdDoc, vdOut>>
mergeVars == <<mgIn, mgOut>>
splitVars == <<spDoc, spArg, spOut>>
ingestVars == <<worker, dialog, result_queue>>
fnVars    == <<fnDoc, fnOut>>
vars      == <<data, files, shared, written, last,
               lkFiles, lkLink, lkOut, vdDoc, vdOut,
               mgIn, mgOut, spDoc, spArg, spOut,
               worker, dialog, result_queue, fnDoc, fnOut>>

\* merge_json_files has not been called.
NoMergeCall == [called |-> FALSE, raised |-> FALSE, data |-> << >>, added |-> 0]

\* No splitter function has been called.
NoSplitCall == [op |-> "none", raised |-> FALSE, chunks |-> << >>]

\* Nothing has happened in the merge.
MergeIdle == mgIn = << >> /\ mgOut = NoMergeCall

\* Nothing has happened in the splitter.
SplitIdle == spDoc = << >> /\ spArg = [n |-> 0, exts |-> << >>] /\ spOut = NoSplitCall

\* process_link has not been started.
NoWorker == [pc |-> "idle", links |-> << >>, i |-> 0, k |-> 0, batch_success |-> 0,
             success_count |-> 0, saves |-> << >>, mutating |-> FALSE, observed |-> FALSE]

\* No progress window, no poller, nothing reported.
NoDialog == [window |-> FALSE, cancel |-> FALSE, poll |-> FALSE, reported |-> "none",
             mutating |-> FALSE]

\* No ingestion is running.
IngestIdle == worker = NoWorker /\ dialog = NoDialog /\ result_queue = << >>

\* Neither the sorter nor the directory index has been called.
NoFnCall == [op |-> "none", raised |-> FALSE, result |-> << >>]

\* Nothing has happened in the sorter and the directory index.
FnIdle == fnDoc = << >> /\ fnOut = NoFnCall

---------------------------------------------------------------------------
(* Python str primitives on sequences of characters                        *)

Digits == {"0", "1", "2", "3", "4", "5", "6", "7", "8", "9"}

\* The characters str.strip() removes; the model's alphabet holds the space.
Whitespace == {" "}

DigitVal(c) ==
    CASE c = "0" -> 0 [] c = "1" -> 1 [] c = "2" -> 2 [] c = "3" -> 3
      [] c = "4" -> 4 [] c = "5" -> 5 [] c = "6" -> 6 [] c = "7" -> 7
      [] c = "8" -> 8 [] c = "9" -> 9 [] OTHER -> 0

DigitChar(n) ==
    CASE n = 0 -> "0" [] n = 1 -> "1" [] n = 2 -> "2" [] n = 3 -> "3"
      [] n = 4 -> "4" [] n = 5 -> "5" [] n = 6 -> "6" [] n = 7 -> "7"
      [] n = 8 -> "8" [] OTHER -> "9"

\* s.startswith(p)
StartsWith(s, p) == Len(p) <= Len(s) /\ SubSeq(s, 1, Len(p)) = p

\* s[n:]
DropFirst(s, n) == SubSeq(s, n + 1, Len(s))

\* s.replace('\\', '/')
ReplaceBackslash(s) == [i \in 1..Len(s) |-> IF s[i] = "\\" THEN "/" ELSE s[i]]

RECURSIVE LStripChars(_, _)
\* s.lstrip(chars)
LStripChars(s, cs) ==
    IF s # << >> /\ Head(s) \in cs THEN LStripChars(Tail(s), cs) ELSE s

RECURSIVE RStripChars(_, _)
\* s.rstrip(chars)
RStripChars(s, cs) ==
    IF s # << >> /\ s[Len(s)] \in cs
    THEN RStripChars(SubSeq(s, 1, Len(s) - 1), cs)
    ELSE s

\* s.strip(chars)
StripChars(s, cs) == RStripChars(LStripChars(s, cs), cs)

\* s.strip()
Strip(s) == StripChars(s, Whitespace)

\* Index of the first occurrence of character c in s, 0 when there is none.
IndexOf(s, c) ==
    IF \E i \in 1..Len(s) : s[i] = c
    THEN CHOOSE i \in 1..Len(s) : s[i] = c /\ \A j \in 1..(i - 1) : s[j] # c
    ELSE 0

\* Index of the last occurrence of character c in s, 0 when there is none.
LastIndexOf(s, c) ==
    IF \E i \in 1..Len(s) : s[i] = c
    THEN CHOOSE i \in 1..Len(s) : s[i] = c /\ \A j \in (i + 1)..Len(s) : s[j] # c
    ELSE 0

RECURSIVE SplitMax(_, _, _)
\* s.split(c, n): at most n splits, so at most n + 1 parts
SplitMax(s, c, n) ==
    LET i == IndexOf(s, c) IN
    IF n = 0 \/ i = 0 THEN <<s>>
    ELSE <<SubSeq(s, 1, i - 1)>> \o SplitMax(DropFirst(s, i), c, n - 1)

\* s.split(c)
Split(s, c) == SplitMax(s, c, Len(s))

\* s.rsplit(c, 1)[0]
RSplitHead(s, c) ==
    LET i == LastIndexOf(s, c) IN IF i = 0 THEN s ELSE SubSeq(s, 1, i - 1)

\* s.isdigit()
IsDigit(s) == s # << >> /\ \A i \in 1..Len(s) : s[i] \in Digits

RECURSIVE DecimalValue(_)
\* The number a string of digits denotes.
DecimalValue(s) ==
    IF s = << >> THEN 0
    ELSE 10 * DecimalValue(SubSeq(s, 1, Len(s) - 1)) + DigitVal(s[Len(s)])

RECURSIVE DecimalText(_)
\* str(n) for n >= 0
DecimalText(n) ==
    IF n < 10 THEN <<DigitChar(n)>>
    ELSE DecimalText(n \div 10) \o <<DigitChar(n % 10)>>

RECURSIVE CommonPrefix2(_, _)
\* The longest common character prefix of two strings.
CommonPrefix2(a, b) ==
    IF a # << >> /\ b # << >> /\ Head(a) = Head(b)
    THEN <<Head(a)>> \o CommonPrefix2(Tail(a), Tail(b))
    ELSE << >>

RECURSIVE CommonPrefix(_)
\* os.path.commonprefix(list): the longest character prefix of all members
CommonPrefix(ps) ==
    IF ps = << >> THEN << >>
    ELSE IF Len(ps) = 1 THEN ps[1]
    ELSE CommonPrefix2(ps[1], CommonPrefix(Tail(ps)))

RECURSIVE Concat(_)
\* ''.join(parts)
Concat(parts) ==
    IF parts = << >> THEN << >> ELSE Head(parts) \o Concat(Tail(parts))

\* The printable ASCII characters, code points 32 to 126, in order (the
\* grave accent, code point 96, is written "grave").
Ascii ==
    <<" ", "!", "\"", "#", "$", "%", "&", "'", "(", ")",
       "*", "+", ",", "-", ".", "/", "0", "1", "2", "3",
       "4", "5", "6", "7", "8", "9", ":", ";", "<", "=",
       ">", "?", "@", "A", "B", "C", "D", "E", "F", "G",
       "H", "I", "J", "K", "L", "M", "N", "O", "P", "Q",
       "R", "S", "T", "U", "V", "W", "X", "Y", "Z", "[",
       "\\", "]", "^", "_", "grave", "a", "b", "c", "d", "e",
       "f", "g", "h", "i", "j", "k", "l", "m", "n", "o",
       "p", "q", "r", "s", "t", "u", "v", "w", "x", "y",
       "z", "{", "|", "}", "~">>

\* The one character standing for the non-ASCII placeholder prefix that
\* is_valid_123_json gives a file without path and name.
UnnamedPrefix == "U+672A"

\* ord(c)
Ord(c) ==
    IF \E i \in 1..Len(Ascii) : Ascii[i] = c
    THEN 31 + (CHOOSE i \in 1..Len(Ascii) : Ascii[i] = c)
    ELSE 26410

\* c.lower()
LowerChar(c) == IF Ord(c) \in 65..90 THEN Ascii[Ord(c) + 32 - 31] ELSE c

\* s.lower()
Lower(s) == [i \in 1..Len(s) |-> LowerChar(s[i])]

RECURSIVE StrLess(_, _)
\* a < b for two str: by code point, a proper prefix being smaller
StrLess(a, b) ==
    IF b = << >> THEN FALSE
    ELSE IF a = << >> THEN TRUE
    ELSE IF Head(a) = Head(b) THEN StrLess(Tail(a), Tail(b))
    ELSE Ord(Head(a)) < Ord(Head(b))

---------------------------------------------------------------------------
(* JSON scalar values of a "size" field                                    *)

IntV(n) == [t |-> "int", n |-> n, s |-> << >>]
StrV(s) == [t |-> "str", n |-> 0, s |-> s]
NullV   == [t |-> "null", n |-> 0, s |-> << >>]

\* Whether int(v) returns (TRUE) or raises ValueError / TypeError (FALSE).
\* int(str) accepts surrounding whitespace around a run of digits.
IntOk(v) ==
    \/ v.t = "int"
    \/ v.t = "str" /\ IsDigit(Strip(v.s))

\* int(v), where it returns
IntOf(v) == IF v.t = "int" THEN v.n ELSE DecimalValue(Strip(v.s))

\* The text an f-string gives for a size value: f"{file['size']}"
SizeText(v) ==
    CASE v.t = "int" -> DecimalText(v.n)
      [] v.t = "str" -> v.s
      [] OTHER -> <<"N", "o", "n", "e">>

Rec(p, s, e) == [path |-> p, size |-> s, etag |-> e]

---------------------------------------------------------------------------
(* LinkParser: src/utils/link_parser.py                                    *)

TagFS   == <<"1", "2", "3", "F", "S", "L", "i", "n", "k">>
TagFSV2 == <<"1", "2", "3", "F", "S", "L", "i", "n", "k", "V", "2">>
TagFLCP == <<"1", "2", "3", "F", "L", "C", "P", "V", "2">>

ErrEmptyLink     == "link cannot be empty"
ErrBadPrefix     == "invalid link format: must start with 123FSLink or 123FLCPV2"
ErrNoFileInfo    == "no valid file info parsed"
ErrFlcpMissing   == "invalid FLCPV2 format: missing required parts"
ErrVNoPrefix     == "must start with 123FSLink or 123FLCPV2"
ErrVNoFilePart   == "missing file info part"
ErrVSizeNotDigit == "file size must be a number"
ErrVBadFileInfo  == "file info format error"

HexDigits == Digits \cup {"A", "B", "C", "D", "E", "F", "a", "b", "c", "d", "e", "f"}

HexVal(c) ==
    CASE c \in Digits -> DigitVal(c)
      [] c \in {"A", "a"} -> 10 [] c \in {"B", "b"} -> 11
      [] c \in {"C", "c"} -> 12 [] c \in {"D", "d"} -> 13
      [] c \in {"E", "e"} -> 14 [] OTHER -> 15

\* chr(n) for a byte %XX decodes to; a byte outside printable ASCII is the one
\* placeholder character "?".
Chr(n) == IF n \in 32..126 THEN Ascii[n - 31] ELSE "?"

RECURSIVE unquote(_)
\* urllib.parse.unquote: every %XX with two hex digits becomes the character
\* it encodes, any other '%' stays as it is.
unquote(s) ==
    IF s = << >> THEN << >>
    ELSE IF s[1] = "%" /\ Len(s) >= 3 /\ s[2] \in HexDigits /\ s[3] \in HexDigits
    THEN <<Chr(16 * HexVal(s[2]) + HexVal(s[3]))>> \o unquote(DropFirst(s, 3))
    ELSE <<s[1]>> \o unquote(Tail(s))

\* _parse_fslink's loop body with part.split('#') in place of
\* part.split('#', 2): a path holding '#' gives more than three fields and
\* the entry is dropped.
FsEntryNoMaxsplit(part) ==
    LET f == Split(part, "#") IN
    IF Strip(part) = << >> THEN << >>
    ELSE IF Len(f) # 3 THEN << >>
    ELSE <<Rec(Strip(ReplaceBackslash(f[3])), StrV(Strip(f[2])), Strip(f[1]))>>

\* The loop body of _parse_fslink for one '$'-separated part: the records it
\* appends (none for a blank part, none when part.split('#', 2) does not give
\* three fields and the unpacking raises ValueError).
FsEntry(part) ==
    LET f == SplitMax(part, "#", 2) IN
    IF Strip(part) = << >> THEN << >>
    ELSE IF Len(f) # 3 THEN << >>
    ELSE <<Rec(Strip(ReplaceBackslash(f[3])), StrV(Strip(f[2])), Strip(f[1]))>>

\* _parse_flcp_link's loop body using the whole third field as the name
\* instead of the text after its last '#'.
FlcpEntryWholeRest(part) ==
    LET f == SplitMax(part, "#", 2) IN
    IF Strip(part) = << >> THEN << >>
    ELSE IF Len(f) # 3 THEN << >>
    ELSE <<Rec(ReplaceBackslash(unquote(Strip(f[3]))), StrV(Strip(f[2])), Strip(f[1]))>>

\* The loop body of _parse_flcp_link for one part after base_path.
FlcpEntry(part) ==
    LET f == SplitMax(part, "#", 2) IN
    IF Strip(part) = << >> THEN << >>
    ELSE IF Len(f) # 3 THEN << >>
    ELSE LET tail == Split(f[3], "#")
             name == unquote(Strip(tail[Len(tail)]))
         IN  <<Rec(ReplaceBackslash(name), StrV(Strip(f[2])), Strip(f[1]))>>

RECURSIVE FsEntriesAbort(_)
\* _parse_fslink's loop leaving at the first part that does not split into
\* three fields (break in place of continue).
FsEntriesAbort(parts) ==
    IF parts = << >> THEN << >>
    ELSE IF Strip(Head(parts)) # << >> /\ Len(SplitMax(Head(parts), "#", 2)) # 3
    THEN << >>
    ELSE FsEntry(Head(parts)) \o FsEntriesAbort(Tail(parts))

RECURSIVE FsEntries(_)
FsEntries(parts) ==
    IF parts = << >> THEN << >>
    ELSE FsEntry(Head(parts)) \o FsEntries(Tail(parts))

RECURSIVE FlcpEntries(_)
FlcpEntries(parts) ==
    IF parts = << >> THEN << >>
    ELSE FlcpEntry(Head(parts)) \o FlcpEntries(Tail(parts))

\* return files or [], "..." if not files else ""
ParseReturn(fs) == [files |-> fs, err |-> IF fs = << >> THEN ErrNoFileInfo ELSE ""]

parse_fslink(link) == ParseReturn(FsEntries(Tail(Split(link, "$"))))

parse_flcp_link(link) ==
    LET parts == Split(link, "$") IN
    IF Len(parts) < 3 THEN [files |-> << >>, err |-> ErrFlcpMissing]
    ELSE ParseReturn(FlcpEntries(DropFirst(parts, 2)))

\* The sub-parsers raise nothing on a str, so the except branch of parse_link
\* is never taken for the inputs of the model.
parse_link(link) ==
    IF link = << >> THEN [files |-> << >>, err |-> ErrEmptyLink]
    ELSE IF StartsWith(link, TagFS) THEN parse_fslink(link)
    ELSE IF StartsWith(link, TagFLCP) THEN parse_flcp_link(link)
    ELSE [files |-> << >>, err |-> ErrBadPrefix]

\* [f['path'] for f in files]
PathsOf(fs) == [i \in 1..Len(fs) |-> fs[i].path]

\* p.replace('\\', '/').strip('/')
NormPath(p) == StripChars(ReplaceBackslash(p), {"/"})

\* _find_common_path returning the raw character prefix, not trimmed back to
\* the last '/'.
find_common_path_raw(paths) ==
    IF paths = << >> THEN << >>
    ELSE LET normalized == [i \in 1..Len(paths) |-> NormPath(paths[i])]
             common == CommonPrefix(normalized)
         IN  IF \E i \in 1..Len(common) : common[i] = "/" THEN common ELSE << >>

find_common_path(paths) ==
    IF paths = << >> THEN << >>
    ELSE LET normalized == [i \in 1..Len(paths) |-> NormPath(paths[i])]
             common == CommonPrefix(normalized)
         IN  IF \E i \in 1..Len(common) : common[i] = "/"
             THEN RSplitHead(common, "/")
             ELSE << >>

\* One entry of _generate_fslink: $etag#size#path
FsSegment(file) ==
    <<"$">> \o file.etag \o <<"#">> \o SizeText(file.size) \o <<"#">>
            \o Strip(ReplaceBackslash(file.path))

RECURSIVE FsSegments(_)
FsSegments(fs) ==
    IF fs = << >> THEN << >> ELSE FsSegment(Head(fs)) \o FsSegments(Tail(fs))

generate_fslink(fs) == TagFSV2 \o FsSegments(fs)

\* One entry of _generate_flcp_link, base being the normalized base path.
FlcpSegment(file, base) ==
    LET path == NormPath(file.path)
        name == IF StartsWith(path, base)
                THEN LStripChars(DropFirst(path, Len(base)), {"/"})
                ELSE path
    IN  <<"$">> \o file.etag \o <<"#">> \o SizeText(file.size) \o <<"#">> \o name

RECURSIVE FlcpSegments(_, _)
FlcpSegments(fs, base) ==
    IF fs = << >> THEN << >>
    ELSE FlcpSegment(Head(fs), base) \o FlcpSegments(Tail(fs), base)

generate_flcp_link(fs, base_path) ==
    LET base == NormPath(base_path) IN
    TagFLCP \o <<"$">> \o base \o FlcpSegments(fs, base)

generate_link(fs) ==
    IF fs = << >> THEN TagFSV2
    ELSE LET common_path == find_common_path(PathsOf(fs)) IN
         IF common_path # << >> THEN generate_flcp_link(fs, common_path)
         ELSE generate_fslink(fs)

\* The loop of validate_link_format over parts[1:]: "" when every part
\* passes, else the message of the first part that fails.
RECURSIVE ValidateParts(_)
ValidateParts(parts) ==
    IF parts = << >> THEN ""
    ELSE LET part == Head(parts)
             f == SplitMax(part, "#", 2)
         IN  IF part = << >> THEN ValidateParts(Tail(parts))
             ELSE IF Len(f) # 3 THEN ErrVBadFileInfo
             ELSE IF ~IsDigit(f[2]) THEN ErrVSizeNotDigit
             ELSE ValidateParts(Tail(parts))

validate_link_format(link) ==
    LET parts == Split(link, "$")
        fail(msg) == [ok |-> FALSE, err |-> msg]
    IN  IF link = << >> THEN fail(ErrEmptyLink)
        ELSE IF ~(StartsWith(link, TagFS) \/ StartsWith(link, TagFLCP))
        THEN fail(ErrVNoPrefix)
        ELSE IF Len(parts) < 2 THEN fail(ErrVNoFilePart)
        ELSE LET msg == ValidateParts(Tail(parts)) IN
             [ok |-> msg = "", err |-> msg]

---------------------------------------------------------------------------
(* is_valid_123_json: src/utils/json_handler.py                            *)
(*                                                                         *)
(* A JSON object is a function from its keys.  The value of "files" and of *)
(* "list" is [isList, items]: isList says whether the JSON value is a      *)
(* list, items holds its elements.  An element that is no JSON object is   *)
(* [scalar |-> v]; any other element is the object itself.                 *)

ListV(items) == [isList |-> TRUE, items |-> items]
NotAList     == [isList |-> FALSE, items |-> << >>]

\* isinstance(item, dict)
IsDict(item) == "scalar" \notin DOMAIN item

\* 'k' in obj
HasKey(obj, k) == k \in DOMAIN obj

\* obj[k] = v
SetKey(obj, k, v) == [x \in DOMAIN obj \cup {k} |-> IF x = k THEN v ELSE obj[x]]

NoErr == [kind |-> "", field |-> "", index |-> 0]
ErrMissingField(f)        == [kind |-> "missing required field", field |-> f, index |-> 0]
ErrFilesNotList           == [kind |-> "files must be a list", field |-> "files", index |-> 0]
ErrFileNotDict(i)         == [kind |-> "file must be a dict", field |-> "", index |-> i]
ErrFileMissingField(i, f) == [kind |-> "file lacks required field", field |-> f, index |-> i]

\* The placeholder path of entry i (0-based): the fixed prefix followed by
\* i + 1.
UnnamedFile(i) == <<UnnamedPrefix>> \o DecimalText(i + 1)

\* New-FastLink shape, the size an entry is given.
NewSize(item) ==
    IF HasKey(item, "size") /\ IntOk(item["size"]) THEN IntV(IntOf(item["size"]))
    ELSE IntV(0)

\* New-FastLink shape, what an entry adds to total_size.
NewSizeCounted(item) ==
    IF IsDict(item) /\ HasKey(item, "size") /\ IntOk(item["size"])
    THEN IntOf(item["size"]) ELSE 0

\* New-FastLink shape, the loop body for entry number i (1-based here): an
\* entry that is no dict is left as it is.
NewItem(item, i) ==
    IF ~IsDict(item) THEN item
    ELSE LET a == SetKey(item, "size", NewSize(item))
             b == IF HasKey(a, "path") THEN a
                  ELSE IF HasKey(a, "name") THEN SetKey(a, "path", a["name"])
                  ELSE SetKey(a, "path", UnnamedFile(i - 1))
         IN  IF HasKey(b, "etag") THEN b
             ELSE IF HasKey(b, "hash") THEN SetKey(b, "etag", b["hash"])
             ELSE IF HasKey(b, "sha1") THEN SetKey(b, "etag", b["sha1"])
             ELSE SetKey(b, "etag", << >>)

RECURSIVE SumCounted(_)
SumCounted(items) ==
    IF items = << >> THEN 0
    ELSE NewSizeCounted(Head(items)) + SumCounted(Tail(items))

\* The legacy record made of one entry, were the etag left out of it.
LegacyItemNoEtag(item) ==
    IF ~IsDict(item) THEN << >>
    ELSE IF ~(HasKey(item, "name") \/ HasKey(item, "path")) THEN << >>
    ELSE <<[path |-> IF HasKey(item, "name") THEN item["name"] ELSE item["path"],
            size |-> NewSize(item)]>>

\* Legacy list shape, the record made of one entry: none for an entry that is
\* no dict or has neither name nor path.
LegacyItem(item) ==
    IF ~IsDict(item) THEN << >>
    ELSE IF ~(HasKey(item, "name") \/ HasKey(item, "path")) THEN << >>
    ELSE <<Rec(IF HasKey(item, "name") THEN item["name"] ELSE item["path"],
               NewSize(item),
               IF HasKey(item, "hash") THEN item["hash"]
               ELSE IF HasKey(item, "sha1") THEN item["sha1"]
               ELSE << >>)>>

RECURSIVE LegacyItems(_)
LegacyItems(items) ==
    IF items = << >> THEN << >>
    ELSE LegacyItem(Head(items)) \o LegacyItems(Tail(items))

RECURSIVE SumSizes(_)
\* sum(int(file['size']) for file in files), for sizes int() accepts
SumSizes(fs) ==
    IF fs = << >> THEN 0 ELSE IntOf(Head(fs)["size"]) + SumSizes(Tail(fs))

\* Strict shape, the check of the entries from number i on.
RECURSIVE StrictItems(_, _)
StrictItems(items, i) ==
    IF i > Len(items) THEN NoErr
    ELSE IF ~IsDict(items[i]) THEN ErrFileNotDict(i)
    ELSE IF ~HasKey(items[i], "path") THEN ErrFileMissingField(i, "path")
    ELSE IF ~HasKey(items[i], "size") THEN ErrFileMissingField(i, "size")
    ELSE IF ~HasKey(items[i], "etag") THEN ErrFileMissingField(i, "etag")
    ELSE StrictItems(items, i + 1)

\* The new-FastLink test tried behind the legacy one.
IsNewShapeAfterLegacy(d) ==
    /\ ~(HasKey(d, "list") /\ d["list"].isList)
    /\ HasKey(d, "files") /\ d["files"].isList
    /\ HasKey(d, "scriptVersion") \/ HasKey(d, "exportVersion")

IsNewShape(d) ==
    /\ HasKey(d, "files") /\ d["files"].isList
    /\ HasKey(d, "scriptVersion") \/ HasKey(d, "exportVersion")

IsLegacyShape(d) == HasKey(d, "list") /\ d["list"].isList

\* is_valid_123_json(data): ok and err are what it returns, doc is data as
\* the call leaves it.
is_valid_123_json(d) ==
    IF IsNewShape(d)
    THEN LET old == d["files"].items
             fs == [i \in 1..Len(old) |-> NewItem(old[i], i)]
             d1 == SetKey(d, "files", ListV(fs))
             d2 == IF HasKey(d1, "totalFilesCount") THEN d1
                   ELSE SetKey(d1, "totalFilesCount", Len(fs))
             d3 == IF HasKey(d2, "totalSize") THEN d2
                   ELSE SetKey(d2, "totalSize", SumCounted(old))
         IN  [ok |-> TRUE, err |-> NoErr, doc |-> d3]
    ELSE IF IsLegacyShape(d)
    THEN LET fs == LegacyItems(d["list"].items) IN
         [ok |-> TRUE, err |-> NoErr,
          doc |-> [files |-> ListV(fs), totalFilesCount |-> Len(fs),
                   totalSize |-> SumSizes(fs)]]
    ELSE IF ~HasKey(d, "files") THEN [ok |-> FALSE, err |-> ErrMissingField("files"), doc |-> d]
    ELSE IF ~HasKey(d, "totalFilesCount")
    THEN [ok |-> FALSE, err |-> ErrMissingField("totalFilesCount"), doc |-> d]
    ELSE IF ~HasKey(d, "totalSize")
    THEN [ok |-> FALSE, err |-> ErrMissingField("totalSize"), doc |-> d]
    ELSE IF ~d["files"].isList THEN [ok |-> FALSE, err |-> ErrFilesNotList, doc |-> d]
    ELSE LET e == StrictItems(d["files"].items, 1) IN
         [ok |-> e = NoErr, err |-> e, doc |-> d]

---------------------------------------------------------------------------
(* sort_json_data (src/utils/file_sorter.py) and JsonData                   *)
(* (src/models/json_data.py)                                               *)

\* self.data is None
NoneData == << >>

\* not self.data
IsNone(d) == DOMAIN d = {}

\* key=lambda x: x.get('path', '').lower()
SortKey(item) == Lower(IF HasKey(item, "path") THEN item["path"] ELSE << >>)

RECURSIVE InsertSortedUnstable(_, _)
\* x placed before the first element whose key is not smaller than its own
InsertSortedUnstable(sorted, x) ==
    IF sorted = << >> THEN <<x>>
    ELSE IF ~StrLess(SortKey(Head(sorted)), SortKey(x)) THEN <<x>> \o sorted
    ELSE <<Head(sorted)>> \o InsertSortedUnstable(Tail(sorted), x)

RECURSIVE InsertSorted(_, _)
\* x placed behind every element whose key is not greater than its own
InsertSorted(sorted, x) ==
    IF sorted = << >> THEN <<x>>
    ELSE IF StrLess(SortKey(x), SortKey(Head(sorted))) THEN <<x>> \o sorted
    ELSE <<Head(sorted)>> \o InsertSorted(Tail(sorted), x)

RECURSIVE SortedByPath(_)
\* sorted(files, key=...): stable, ascending
SortedByPath(items) ==
    IF items = << >> THEN << >>
    ELSE InsertSorted(SortedByPath(SubSeq(items, 1, Len(items) - 1)), items[Len(items)])

\* The data left in the order it came in.
sort_json_data_skipped(d) == [raised |-> FALSE, data |-> d]

\* sort_json_data(data) for a dict: raised when an element of files has no
\* .get (is no dict), else the copy with files sorted.
sort_json_data(d) ==
    IF ~HasKey(d, "files") THEN [raised |-> FALSE, data |-> d]
    ELSE IF ~d["files"].isList THEN [raised |-> FALSE, data |-> d]
    ELSE IF \E i \in 1..Len(d["files"].items) : ~IsDict(d["files"].items[i])
    THEN [raised |-> TRUE, data |-> d]
    ELSE [raised |-> FALSE,
          data |-> SetKey(d, "files", ListV(SortedByPath(d["files"].items)))]

\* int(file['size']) returns
SizeOk(item) == IsDict(item) /\ HasKey(item, "size") /\ IntOk(item["size"])

\* file['path'] returns
HasPath(item) == IsDict(item) /\ HasKey(item, "path")

\* JsonData.update_totals with self.data = d and self.files = fs: raised when
\* int(file['size']) raises, else d with both totals computed from fs.
update_totals(d, fs) ==
    IF IsNone(d) \/ ~HasKey(d, "files") THEN [raised |-> FALSE, data |-> d]
    ELSE IF \E i \in 1..Len(fs) : ~SizeOk(fs[i]) THEN [raised |-> TRUE, data |-> d]
    ELSE [raised |-> FALSE,
          data |-> SetKey(SetKey(d, "totalFilesCount", Len(fs)), "totalSize", SumSizes(fs))]

RECURSIVE NewOnes(_, _)
\* The records of new that the loop of add_files appends, seen being
\* existing_paths.
NewOnes(new, seen) ==
    IF new = << >> THEN << >>
    ELSE IF Head(new)["path"] \in seen THEN NewOnes(Tail(new), seen)
    ELSE <<Head(new)>> \o NewOnes(Tail(new), seen \cup {Head(new)["path"]})

\* The store after a call: outcome is "ok" (returned), "error" (returned an
\* error) or "raised".
After(d, f, sh, outcome, ret) ==
    [data |-> d, files |-> f, shared |-> sh, outcome |-> outcome, ret |-> ret]

\* The end of add_files: self.data = sort_json_data(self.data), then
\* self.files = self.data['files'] and update_totals().  d1 and f1 are
\* self.data and self.files after the appends, srt what the sort gives.
AddSorted(d1, f1, sh, srt, added) ==
    IF srt.raised THEN After(d1, f1, sh, "raised", 0)
    ELSE IF update_totals(srt.data, srt.data["files"].items).raised
    THEN After(srt.data, srt.data["files"].items, TRUE, "raised", 0)
    ELSE After(update_totals(srt.data, srt.data["files"].items).data,
               srt.data["files"].items, TRUE, "ok", added)

\* add_files once the loop has appended app: the appends go to the list
\* self.files, which is the list data['files'] when sh.
AddAppended(d, f, sh, app) ==
    AddSorted(IF sh THEN SetKey(d, "files", ListV(f \o app)) ELSE d,
              f \o app, sh,
              sort_json_data(IF sh THEN SetKey(d, "files", ListV(f \o app)) ELSE d),
              Len(app))

\* JsonData.add_files(new_files) on self.data = d, self.files = f
add_files(d, f, sh, new) ==
    IF IsNone(d) THEN After(d, f, sh, "ok", 0)
    ELSE IF \E i \in 1..Len(f) : ~HasPath(f[i]) THEN After(d, f, sh, "raised", 0)
    ELSE AddAppended(d, f, sh, NewOnes(new, {f[i]["path"] : i \in 1..Len(f)}))

RECURSIVE WithoutPaths(_, _)
\* [file for file in self.files if file['path'] not in paths_set]
WithoutPaths(f, ps) ==
    IF f = << >> THEN << >>
    ELSE (IF Head(f)["path"] \in ps THEN << >> ELSE <<Head(f)>>) \o WithoutPaths(Tail(f), ps)

\* The end of remove_files: f1 is the filtered list, already assigned to
\* self.files and data['files'] when update_totals() runs.
RemoveFiltered(d, f1, removed) ==
    IF update_totals(SetKey(d, "files", ListV(f1)), f1).raised
    THEN After(SetKey(d, "files", ListV(f1)), f1, TRUE, "raised", 0)
    ELSE After(update_totals(SetKey(d, "files", ListV(f1)), f1).data, f1, TRUE, "ok", removed)

\* set(paths)
PathsSet(paths) == {paths[i] : i \in 1..Len(paths)}

\* JsonData.remove_files(paths)
remove_files(d, f, sh, paths) ==
    IF IsNone(d) \/ paths = << >> THEN After(d, f, sh, "ok", 0)
    ELSE IF \E i \in 1..Len(f) : ~HasPath(f[i]) THEN After(d, f, sh, "raised", 0)
    ELSE RemoveFiltered(d, WithoutPaths(f, PathsSet(paths)), Cardinality(PathsSet(paths)))

\* A file handed to read_json_file: unreadable (missing, no JSON), or
\* holding a document.
Unreadable  == [readable |-> FALSE, doc |-> << >>]
FileOf(doc) == [readable |-> TRUE, doc |-> doc]

\* load once the file is read: v is what is_valid_123_json returned.
LoadValidated(d, f, sh, v) ==
    IF ~v.ok THEN After(d, f, sh, "error", 0)
    ELSE After(v.doc, v.doc["files"].items, TRUE, "ok", 0)

\* JsonData.load(filepath)
load(d, f, sh, file) ==
    IF ~file.readable THEN After(d, f, sh, "error", 0)
    ELSE LoadValidated(d, f, sh, is_valid_123_json(file.doc))

\* JsonData.create_new()
create_new ==
    After([files |-> ListV(<< >>), totalFilesCount |-> 0, totalSize |-> 0],
          << >>, TRUE, "ok", 0)

\* What a call that writes may end in: the store, and the document written
\* (<< >> when none is).
Wrote(after, doc) == [after |-> after, wrote |-> doc]

\* save after update_totals(), which gave ut; io says whether
\* write_json_file succeeds.
SaveTotalled(d, f, sh, ut, io) ==
    IF ut.raised THEN Wrote(After(d, f, sh, "raised", 0), << >>)
    ELSE IF io THEN Wrote(After(ut.data, f, sh, "ok", 0), ut.data)
    ELSE Wrote(After(ut.data, f, sh, "error", 0), << >>)

\* JsonData.save(filepath)
save(d, f, sh, io) ==
    IF IsNone(d) THEN Wrote(After(d, f, sh, "error", 0), << >>)
    ELSE SaveTotalled(d, f, sh, update_totals(d, f), io)

\* The inner loop letting a later record take the place of an earlier one
\* with its path.
RECURSIVE MergeItemsLastWins(_, _)
MergeItemsLastWins(items, acc) ==
    IF items = << >> \/ acc.raised THEN acc
    ELSE MergeItemsLastWins(Tail(items),
             IF ~HasPath(Head(items)) THEN [acc EXCEPT !.raised = TRUE]
             ELSE IF Head(items)["path"] \in acc.seen
             THEN [acc EXCEPT !.files =
                      [i \in 1..Len(acc.files) |->
                          IF acc.files[i]["path"] = Head(items)["path"]
                          THEN Head(items) ELSE acc.files[i]]]
             ELSE [raised |-> FALSE,
                   files |-> Append(acc.files, Head(items)),
                   seen |-> acc.seen \cup {Head(items)["path"]}])

\* The inner loop of merge_json_files over one accepted document's files:
\* acc is [raised, files, seen].
RECURSIVE MergeItems(_, _)
MergeItems(items, acc) ==
    IF items = << >> \/ acc.raised THEN acc
    ELSE MergeItems(Tail(items),
                    IF ~HasPath(Head(items)) THEN [acc EXCEPT !.raised = TRUE]
                    ELSE IF Head(items)["path"] \in acc.seen THEN acc
                    ELSE [raised |-> FALSE,
                          files |-> Append(acc.files, Head(items)),
                          seen |-> acc.seen \cup {Head(items)["path"]}])

\* One file of the outer loop, v being what is_valid_123_json returned: a
\* document that is refused is passed over.
MergeValidated(v, acc) ==
    IF ~v.ok THEN acc ELSE MergeItems(v.doc["files"].items, acc)

\* The outer loop of merge_json_files: a file that cannot be read is passed
\* over.
RECURSIVE MergeFilesLoop(_, _)
MergeFilesLoop(inputs, acc) ==
    IF inputs = << >> \/ acc.raised THEN acc
    ELSE MergeFilesLoop(Tail(inputs),
                        IF ~Head(inputs).readable THEN acc
                        ELSE MergeValidated(is_valid_123_json(Head(inputs).doc), acc))

\* What merge_json_files ends in: data is NoneData for a None result.
Merged(raised, d, added) == [raised |-> raised, data |-> d, added |-> added]

\* The totals of merge_json_files over the sorted list fs
MergeTotalled(fs, added) ==
    IF \E i \in 1..Len(fs) : ~SizeOk(fs[i]) THEN Merged(TRUE, NoneData, 0)
    ELSE Merged(FALSE,
                [files |-> ListV(fs), totalFilesCount |-> Len(fs), totalSize |-> SumSizes(fs)],
                added)

\* merge_json_files after its loops, which gave acc
MergeCollected(acc) ==
    IF acc.raised THEN Merged(TRUE, NoneData, 0)
    ELSE IF acc.files = << >> THEN Merged(FALSE, NoneData, 0)
    ELSE MergeTotalled(
             sort_json_data([files |-> ListV(acc.files),
                             totalFilesCount |-> 0, totalSize |-> 0]).data["files"].items,
             Len(acc.files))

\* JsonData.merge_json_files(filepaths)
merge_json_files(inputs) ==
    IF inputs = << >> THEN Merged(FALSE, NoneData, 0)
    ELSE MergeCollected(MergeFilesLoop(inputs, [raised |-> FALSE, files |-> << >>, seen |-> {}]))

\* merge_files after merge_json_files, which gave m: an exception of the
\* merge is caught and reported; a merged set is put into a fresh JsonData
\* by assigning .data alone (its .files stays the empty list of __init__)
\* and then saved.
MergeInstalled(d, f, sh, m, io) ==
    IF m.raised \/ IsNone(m.data) THEN Wrote(After(d, f, sh, "error", 0), << >>)
    ELSE save(m.data, << >>, FALSE, io)

\* App.merge_files(filepaths)
merge_files(d, f, sh, inputs, io) ==
    IF Len(inputs) < 2 THEN Wrote(After(d, f, sh, "error", 0), << >>)
    ELSE MergeInstalled(d, f, sh, merge_json_files(inputs), io)

---------------------------------------------------------------------------
(* The link codec as a state machine: one input is drawn, then the codec   *)
(* functions are applied to it.                                            *)

\* Bounds of the inputs.
MaxFiles  == 2      \* records in a list handed to generate_link
MaxTokens == 2      \* '$'-separated tokens after the tag of an input link

\* Records handed to generate_link.  Paths with and without a directory, a
\* raw character prefix that is no directory ("d/a", "d/ab", "dd/a"), an
\* empty segment, surrounding slashes and blanks, a backslash, the two
\* delimiters; sizes as JSON numbers and as strings; plain and odd etags.
InputRecords ==
    { Rec(<<"a">>, StrV(<<"1">>), <<"E">>),
      Rec(<<"b">>, StrV(<<"2">>), <<"X">>),
      Rec(<<"d", "/", "a">>, StrV(<<"1">>), <<"E">>),
      Rec(<<"d", "/", "a", "b">>, StrV(<<"2">>), <<"X">>),
      Rec(<<"d", "/", "b">>, IntV(12), <<"X">>),
      Rec(<<"d", "d", "/", "a">>, StrV(<<"1">>), <<"E">>),
      Rec(<<"d", "/", "/", "b">>, StrV(<<"1">>), <<"E">>),
      Rec(<<"/", "d", "/", "a", "/">>, StrV(<<"1">>), <<"E">>),
      Rec(<<"a", "$", "b">>, StrV(<<"1">>), <<"E">>),
      Rec(<<"a", "#", "b">>, StrV(<<"1">>), <<"E">>),
      Rec(<<" ", "a">>, StrV(<<"1">>), <<"E">>),
      Rec(<<"d", "\\", "b">>, StrV(<<"1">>), <<"E">>),
      Rec(<<"b">>, StrV(<<" ", "3">>), <<"E", "#">>),
      Rec(<<"b">>, StrV(<<"x">>), <<" ", "X">>) }

RECURSIVE ListsUpTo(_, _)
\* The sequences over S of length at most n.
ListsUpTo(S, n) ==
    IF n = 0 THEN {<< >>}
    ELSE LET shorter == ListsUpTo(S, n - 1) IN
         shorter \cup {Append(l, x) : l \in shorter, x \in S}

InputFileLists == ListsUpTo(InputRecords, MaxFiles)

\* Tokens of an input link: well-formed entries, a token without '#' (also
\* a base path), an empty and a blank token, a size that is no number, a
\* path with '#', a name that is padded, percent-encoded and holds a
\* backslash, and an entry with padded fields.
InputTokens ==
    { <<"E", "#", "1", "#", "a">>,
      <<"X", "#", "2", "#", "b">>,
      <<"d">>,
      << >>,
      <<" ">>,
      <<"E", "#", "x", "#", "a">>,
      <<"E", "#", "1", "#", "d", "#", "b">>,
      <<"E", "#", "1", "#", " ", "%", "4", "1", "\\", "b">>,
      <<" ", "E", " ", "#", " ", "1", " ", "#", " ", "a", " ">> }

\* What an input link starts with: the two tags and text that is no tag.
InputHeads == {TagFSV2, TagFLCP, <<"g">>}

RECURSIVE JoinTokens(_)
\* '$' + token for every token
JoinTokens(toks) ==
    IF toks = << >> THEN << >>
    ELSE <<"$">> \o Head(toks) \o JoinTokens(Tail(toks))

InputLinks ==
    {<< >>} \cup
    {h \o JoinTokens(toks) : h \in InputHeads, toks \in ListsUpTo(InputTokens, MaxTokens)}

NoParse == [files |-> << >>, err |-> "not called"]
NoValid == [ok |-> FALSE, err |-> "not called"]

\* Nothing has happened outside the codec.
LinkIdle ==
    /\ data = << >> /\ files = << >> /\ shared = TRUE /\ written = << >>
    /\ last = [op |-> "none", outcome |-> "none", ret |-> 0]
    /\ vdDoc = << >> /\ vdOut = [called |-> FALSE, ok |-> FALSE, err |-> NoErr]
    /\ MergeIdle /\ SplitIdle /\ IngestIdle /\ FnIdle

InitLink ==
    /\ LinkIdle
    /\ \/ /\ lkFiles \in InputFileLists
          /\ lkLink = << >>
          /\ lkOut = [src |-> "files", done |-> {}, parse |-> NoParse, valid |-> NoValid]
       \/ /\ lkFiles = << >>
          /\ lkLink \in InputLinks
          /\ lkOut = [src |-> "link", done |-> {}, parse |-> NoParse, valid |-> NoValid]

\* The link text is there: given, or generated.
HaveLink == lkOut.src = "link" \/ "generate" \in lkOut.done

\* link = LinkParser.generate_link(files)
Generate ==
    /\ lkOut.src = "files" /\ "generate" \notin lkOut.done
    /\ lkLink' = generate_link(lkFiles)
    /\ lkOut' = [lkOut EXCEPT !.done = @ \cup {"generate"}]
    /\ UNCHANGED <<lkFiles, storeVars, validVars, mergeVars, splitVars, ingestVars, fnVars>>

\* files, error = LinkParser.parse_link(link)
Parse ==
    /\ HaveLink /\ "parse" \notin lkOut.done
    /\ lkOut' = [lkOut EXCEPT !.done = @ \cup {"parse"}, !.parse = parse_link(lkLink)]
    /\ UNCHANGED <<lkFiles, lkLink, storeVars, validVars, mergeVars, splitVars, ingestVars, fnVars>>

\* valid, error = LinkParser.validate_link_format(link)
Validate ==
    /\ HaveLink /\ "validate" \notin lkOut.done
    /\ lkOut' = [lkOut EXCEPT !.done = @ \cup {"validate"},
                              !.valid = validate_link_format(lkLink)]
    /\ UNCHANGED <<lkFiles, lkLink, storeVars, validVars, mergeVars, splitVars, ingestVars, fnVars>>

NextLink == Generate \/ Parse \/ Validate

SpecLink == InitLink /\ [][NextLink]_vars

---------------------------------------------------------------------------
(* Claims about the link codec (checked under SpecLink)                    *)

\* The records of a list as a set of (path, size, etag) triples.
TripleSet(fs) == {fs[i] : i \in 1..Len(fs)}

Has(s, c) == \E i \in 1..Len(s) : s[i] = c

\* The directory segments of a path: the '/'-separated segments of the
\* slash-normalized path without its surrounding slashes, less the last one.
DirSegments(p) ==
    LET segs == Split(NormPath(p), "/") IN SubSeq(segs, 1, Len(segs) - 1)

\* The first k directory segments are shared by every record of fs.
SharesDir(fs, k) ==
    \A i \in 1..Len(fs) :
        /\ Len(DirSegments(fs[i].path)) >= k
        /\ SubSeq(DirSegments(fs[i].path), 1, k) = SubSeq(DirSegments(fs[1].path), 1, k)

\* The number of segments of the longest directory shared by all of fs.
CommonDirDepth(fs) ==
    IF fs = << >> THEN 0
    ELSE CHOOSE k \in 0..Len(DirSegments(fs[1].path)) :
            /\ SharesDir(fs, k)
            /\ \A j \in (k + 1)..Len(DirSegments(fs[1].path)) : ~SharesDir(fs, j)

RECURSIVE JoinSlash(_)
\* '/'.join(segments)
JoinSlash(segs) ==
    IF segs = << >> THEN << >>
    ELSE IF Len(segs) = 1 THEN segs[1]
    ELSE segs[1] \o <<"/">> \o JoinSlash(Tail(segs))

\* The longest directory shared by all of fs, as text.
CommonDir(fs) == JoinSlash(SubSeq(DirSegments(fs[1].path), 1, CommonDirDepth(fs)))

\* etag#size#name after a '$'
EntryText(file, name) ==
    <<"$">> \o file.etag \o <<"#">> \o SizeText(file.size) \o <<"#">> \o name

RECURSIVE EntriesText(_, _)
\* One entry per record, in the order of the list; names[i] is the name of
\* record i.
EntriesText(fs, names) ==
    IF fs = << >> THEN << >>
    ELSE EntryText(Head(fs), Head(names)) \o EntriesText(Tail(fs), Tail(names))

\* The link C6 describes: the base is the shared directory itself and a name
\* is the path less the base and the one '/' after it.
ClaimedLink(fs) ==
    IF fs = << >> THEN TagFSV2
    ELSE IF CommonDirDepth(fs) >= 1
    THEN LET base == CommonDir(fs) IN
         TagFLCP \o <<"$">> \o base \o
         EntriesText(fs, [i \in 1..Len(fs) |->
                            DropFirst(NormPath(fs[i].path), Len(base) + 1)])
    ELSE TagFSV2 \o
         EntriesText(fs, [i \in 1..Len(fs) |-> Strip(ReplaceBackslash(fs[i].path))])

\* The same with the base written without trailing slashes and a name being
\* the path less the base and every '/' that follows it.
AmendedLink(fs) ==
    IF fs = << >> THEN TagFSV2
    ELSE IF CommonDirDepth(fs) >= 1
    THEN LET base == RStripChars(CommonDir(fs), {"/"}) IN
         TagFLCP \o <<"$">> \o base \o
         EntriesText(fs, [i \in 1..Len(fs) |->
                            LStripChars(DropFirst(NormPath(fs[i].path), Len(base)), {"/"})])
    ELSE TagFSV2 \o
         EntriesText(fs, [i \in 1..Len(fs) |-> Strip(ReplaceBackslash(fs[i].path))])

\* A record the FSLink text carries unchanged: no delimiter inside etag and
\* size, no '$' and no backslash in the path, no field padded with blanks, and
\* the size a string.
CarriedAsIs(r) ==
    /\ ~Has(r.etag, "#") /\ ~Has(r.etag, "$") /\ Strip(r.etag) = r.etag
    /\ r.size.t = "str"
    /\ ~Has(r.size.s, "#") /\ ~Has(r.size.s, "$") /\ Strip(r.size.s) = r.size.s
    /\ ~Has(r.path, "$") /\ ~Has(r.path, "\\") /\ Strip(r.path) = r.path

RoundTripDone == lkOut.src = "files" /\ {"generate", "parse"} \subseteq lkOut.done

\* C5 as stated: for every record list without a common directory,
\* parse_link(generate_link(R)) returns exactly the triples of R.
C5_RoundTripAnyRecords ==
    (RoundTripDone /\ CommonDirDepth(lkFiles) = 0)
        => TripleSet(lkOut.parse.files) = TripleSet(lkFiles)

\* C5 amended: the round trip returns exactly the triples of R when R has no
\* common directory and every record is carried as is (string size, no '#' or
\* '$' in etag and size, no '$' or backslash in the path, no padded field).
C5_RoundTrip ==
    (RoundTripDone /\ CommonDirDepth(lkFiles) = 0
       /\ \A i \in 1..Len(lkFiles) : CarriedAsIs(lkFiles[i]))
        => TripleSet(lkOut.parse.files) = TripleSet(lkFiles)

\* Two different records, one with '#' in its path, went through the round trip.
C5_Witness ==
    /\ RoundTripDone /\ CommonDirDepth(lkFiles) = 0
    /\ Len(lkFiles) = 2 /\ lkFiles[1] # lkFiles[2]
    /\ \A i \in 1..2 : CarriedAsIs(lkFiles[i])
    /\ \E i \in 1..2 : Has(lkFiles[i].path, "#")
    /\ Len(lkOut.parse.files) = 2

\* C6 as stated: FLCP exactly when the paths share a directory of whole
\* segments, base = that directory, name = path less base and the following
\* '/'; FSLink with full paths otherwise; one entry per record in input
\* order; the tag alone for the empty list.
C6_GenerateAsClaimed ==
    "generate" \in lkOut.done => lkLink = ClaimedLink(lkFiles)

\* C6 amended: as stated, except that the base is written without trailing
\* '/' and a name is the path less the base and every '/' following it.
C6_Generate ==
    "generate" \in lkOut.done => lkLink = AmendedLink(lkFiles)

\* A link was generated for two records whose raw character prefix ("d/a")
\* is longer than their common directory ("d").
C6_Witness ==
    /\ "generate" \in lkOut.done /\ Len(lkFiles) = 2
    /\ CommonPrefix(<<NormPath(lkFiles[1].path), NormPath(lkFiles[2].path)>>) = <<"d", "/", "a">>
    /\ lkFiles[1].path # lkFiles[2].path
    /\ StartsWith(lkLink, TagFLCP \o <<"$", "d", "$">>)

\* What C7 says validate_link_format accepts.
ClaimedValid(link) ==
    LET parts == Split(link, "$") IN
    /\ StartsWith(link, TagFS) \/ StartsWith(link, TagFLCP)
    /\ Len(parts) >= 2
    /\ \A i \in 2..Len(parts) :
          LET f == SplitMax(parts[i], "#", 2) IN Len(f) = 3 => IsDigit(f[2])

\* C7: validate_link_format returns true exactly when the link starts with a
\* tag, has a segment beyond the tag and every segment that splits into three
\* fields has an all-digit size; empty and untagged text is refused with a
\* message.
C7_ValidateExactly ==
    "validate" \in lkOut.done =>
        /\ lkOut.valid.ok <=> ClaimedValid(lkLink)
        /\ (lkLink = << >> \/ ~(StartsWith(lkLink, TagFS) \/ StartsWith(lkLink, TagFLCP)))
              => (~lkOut.valid.ok /\ lkOut.valid.err # "")

\* The number of leading tokens that are no entries: the tag, and the base
\* path of an FLCP link.
HeadTokens(link) == IF StartsWith(link, TagFLCP) THEN 2 ELSE 1

Splittable(tok) == Len(SplitMax(tok, "#", 2)) = 3

RECURSIVE KeepSplittable(_)
KeepSplittable(toks) ==
    IF toks = << >> THEN << >>
    ELSE (IF Splittable(Head(toks)) THEN <<Head(toks)>> ELSE << >>)
         \o KeepSplittable(Tail(toks))

\* The entry tokens of a link.
EntryTokens(link) == DropFirst(Split(link, "$"), HeadTokens(link))

\* The link without the entry tokens that do not split into three fields.
WithoutMalformed(link) ==
    LET parts == Split(link, "$")
        h == IF Len(parts) < HeadTokens(link) THEN Len(parts) ELSE HeadTokens(link)
    IN  parts[1] \o JoinTokens(SubSeq(parts, 2, h) \o KeepSplittable(DropFirst(parts, h)))

\* C8: parse_link returns either records with an empty error or no record
\* with an error message, and an entry token that does not split into three
\* fields is skipped without changing the records of the other tokens.
C8_ParseOutcome ==
    "parse" \in lkOut.done =>
        /\ \/ lkOut.parse.files # << >> /\ lkOut.parse.err = ""
           \/ lkOut.parse.files = << >> /\ lkOut.parse.err # ""
        /\ lkOut.parse.files = parse_link(WithoutMalformed(lkLink)).files

\* A given link with a malformed entry token before a well-formed one was
\* parsed and gave records.
C8_Witness ==
    /\ lkOut.src = "link" /\ "parse" \in lkOut.done
    /\ Len(EntryTokens(lkLink)) = 2
    /\ ~Splittable(EntryTokens(lkLink)[1]) /\ Splittable(EntryTokens(lkLink)[2])
    /\ lkOut.parse.files # << >> /\ lkOut.parse.err = ""

\* An entry token the FLCP parser turns into a record.
WellFormed(tok) == Strip(tok) # << >> /\ Splittable(tok)

\* The text after the last '#' of a token.
AfterLastHash(tok) == DropFirst(tok, LastIndexOf(tok, "#"))

RECURSIVE KeepWellFormed(_)
KeepWellFormed(toks) ==
    IF toks = << >> THEN << >>
    ELSE (IF WellFormed(Head(toks)) THEN <<Head(toks)>> ELSE << >>)
         \o KeepWellFormed(Tail(toks))

\* The link with its base_path token replaced.
WithBase(link, b) ==
    LET parts == Split(link, "$") IN
    parts[1] \o JoinTokens(<<b>> \o DropFirst(parts, 2))

\* Base paths tried in place of the one of the link.
OtherBases == {<< >>, <<"d">>, <<"x", "/", "y">>, <<"E", "#", "1", "#", "a">>}

FlcpParsed == "parse" \in lkOut.done /\ StartsWith(lkLink, TagFLCP)

\* Both forms of C9, path(tok) being the path claimed for a well-formed entry.
FlcpPathsAre(path(_)) ==
    LET parts == Split(lkLink, "$")
        good == KeepWellFormed(DropFirst(parts, 2))
    IN  IF Len(parts) < 3
        THEN lkOut.parse.files = << >> /\ lkOut.parse.err = ErrFlcpMissing
        ELSE /\ PathsOf(lkOut.parse.files) = [i \in 1..Len(good) |-> path(good[i])]
             /\ \A b \in OtherBases :
                    parse_link(WithBase(lkLink, b)).files = lkOut.parse.files

VerbatimPath(tok) == unquote(AfterLastHash(tok))

TrimmedPath(tok) == ReplaceBackslash(unquote(Strip(AfterLastHash(tok))))

\* C9 as stated: each well-formed entry of an FLCP link of three tokens or
\* more gives a record whose path is the percent-decoded text after the last
\* '#', verbatim; the base_path token does not matter; fewer than three
\* tokens is the structural error.
C9_FlcpVerbatim == FlcpParsed => FlcpPathsAre(VerbatimPath)

\* C9 amended: the path is the text after the last '#' trimmed of surrounding
\* whitespace, then percent-decoded, then with every backslash turned into
\* '/'; it is never joined with base_path, the base_path token does not
\* matter, and fewer than three tokens is the structural error.
C9_Flcp == FlcpParsed => FlcpPathsAre(TrimmedPath)

\* An FLCP link with base "d" and an entry whose name holds a '#': the record
\* has the path "b", neither "d#b" nor "d/b".
C9_Witness ==
    /\ FlcpParsed
    /\ Len(Split(lkLink, "$")) = 3 /\ Split(lkLink, "$")[2] = <<"d">>
    /\ Has(Split(lkLink, "$")[3], "d")
    /\ Len(lkOut.parse.files) = 1 /\ lkOut.parse.files[1].path = <<"b">>

---------------------------------------------------------------------------
(* The validator as a state machine: a decoded document is drawn and       *)
(* is_valid_123_json is applied to it (it changes the document in place).  *)

MaxItems == 2       \* elements of an input document's "files"

\* Elements of "files" / "list": complete records with a number and a string
\* size, a record lacking size and etag, a legacy entry (name, hash) whose
\* size is no number, an element that is no object, and an entry with
\* neither path nor name.
InputItems ==
    { [path |-> <<"a">>, size |-> IntV(5), etag |-> <<"E">>],
      [path |-> <<"b">>, size |-> StrV(<<"7">>), etag |-> <<"X">>],
      [path |-> <<"a">>],
      [name |-> <<"n">>, size |-> StrV(<<"x">>), hash |-> <<"H">>],
      [scalar |-> 0],
      [sha1 |-> <<"S">>, size |-> NullV] }

\* The keys a document may carry beside "files", each as a set of objects to
\* merge into it.
MarkerOptions == { << >>, [scriptVersion |-> "1.0"], [exportVersion |-> "1.0"] }

ListOptions ==
    { << >>, [list |-> NotAList],
      [list |-> ListV(<<[name |-> <<"n">>, size |-> StrV(<<"7">>), hash |-> <<"H">>],
                        [scalar |-> 0]>>)] }

TotalsOptions ==
    { << >>, [totalFilesCount |-> 7], [totalFilesCount |-> 7, totalSize |-> 9] }

FilesOptions ==
    { << >>, [files |-> NotAList] }
        \cup { [files |-> ListV(l)] : l \in ListsUpTo(InputItems, MaxItems) }

\* The object with the keys of both; a and b have no key in common.
Merge(a, b) ==
    [k \in DOMAIN a \cup DOMAIN b |-> IF k \in DOMAIN a THEN a[k] ELSE b[k]]

InputDocs ==
    { Merge(Merge(f, m), Merge(l, t)) :
        f \in FilesOptions, m \in MarkerOptions, l \in ListOptions, t \in TotalsOptions }

\* Nothing has happened in the store and in the codec.
ValidIdle ==
    /\ data = << >> /\ files = << >> /\ shared = TRUE /\ written = << >>
    /\ last = [op |-> "none", outcome |-> "none", ret |-> 0]
    /\ lkFiles = << >> /\ lkLink = << >>
    /\ lkOut = [src |-> "none", done |-> {}, parse |-> NoParse, valid |-> NoValid]
    /\ MergeIdle /\ SplitIdle /\ IngestIdle /\ FnIdle

InitValid ==
    /\ ValidIdle
    /\ vdDoc \in InputDocs
    /\ vdOut = [called |-> FALSE, ok |-> FALSE, err |-> NoErr]

\* valid, error_msg = is_valid_123_json(data)
ValidateDoc ==
    /\ ~vdOut.called
    /\ LET r == is_valid_123_json(vdDoc) IN
       /\ vdDoc' = r.doc
       /\ vdOut' = [called |-> TRUE, ok |-> r.ok, err |-> r.err]
    /\ UNCHANGED <<storeVars, linkVars, mergeVars, splitVars, ingestVars, fnVars>>

NextValid == ValidateDoc

SpecValid == InitValid /\ [][NextValid]_vars

\* files is a list, every element is an object with path, size and etag, and
\* both totals are present.
Canonical(d) ==
    /\ HasKey(d, "files") /\ d["files"].isList
    /\ \A i \in 1..Len(d["files"].items) :
          LET f == d["files"].items[i] IN
          IsDict(f) /\ HasKey(f, "path") /\ HasKey(f, "size") /\ HasKey(f, "etag")
    /\ HasKey(d, "totalFilesCount") /\ HasKey(d, "totalSize")

\* C10: whenever the validator accepts a document, by any of the three
\* shapes, the document is afterwards in canonical shape.
C10_AcceptedIsCanonical == (vdOut.called /\ vdOut.ok) => Canonical(vdDoc)

\* The document carries a version marker.
HasMarker(d) == HasKey(d, "scriptVersion") \/ HasKey(d, "exportVersion")

\* Element number i of files is an object that lacks field f.
Lacks(d, i, f) == IsDict(d["files"].items[i]) /\ ~HasKey(d["files"].items[i], f)

\* C11: for a document without version markers and without a list key, the
\* rejection names the defect of files: files is no list => the error says
\* that files must be a list; an element of files lacks path, size or etag
\* => the error names a missing field and the 1-based index of the element.
C11_RejectionNamesDefect ==
    (vdOut.called /\ ~HasMarker(vdDoc) /\ ~HasKey(vdDoc, "list") /\ HasKey(vdDoc, "files"))
        => /\ ~vdDoc["files"].isList => (~vdOut.ok /\ vdOut.err = ErrFilesNotList)
           /\ (/\ vdDoc["files"].isList
               /\ \E i \in 1..Len(vdDoc["files"].items), f \in {"path", "size", "etag"} :
                      Lacks(vdDoc, i, f))
                 => /\ ~vdOut.ok
                    /\ \E i \in 1..Len(vdDoc["files"].items), f \in {"path", "size", "etag"} :
                           Lacks(vdDoc, i, f) /\ vdOut.err = ErrFileMissingField(i, f)

\* The element new of the files after the call is the element old of before:
\* an element that is no object is the same, an object has every field it
\* had, the size apart, with the value it had.
SameElement(old, new) ==
    IF ~IsDict(old) THEN new = old
    ELSE IsDict(new) /\ \A k \in DOMAIN old \ {"size"} : HasKey(new, k) /\ new[k] = old[k]

\* The call has kept the files and the other fields of document d in d2.
KeptAsNewShape(d, d2) ==
    /\ \A k \in DOMAIN d \ {"files"} : HasKey(d2, k) /\ d2[k] = d[k]
    /\ HasKey(d2, "files") /\ d2["files"].isList
    /\ Len(d2["files"].items) = Len(d["files"].items)
    /\ \A i \in 1..Len(d["files"].items) :
           SameElement(d["files"].items[i], d2["files"].items[i])

\* The call has replaced document d by the conversion of its list in d2:
\* one record for each object of list that has a name or a path.
ConvertedFromList(d, d2) ==
    /\ DOMAIN d2 = {"files", "totalFilesCount", "totalSize"}
    /\ d2["files"].isList
    /\ Len(d2["files"].items) =
           Cardinality({i \in 1..Len(d["list"].items) :
                           /\ IsDict(d["list"].items[i])
                           /\ HasKey(d["list"].items[i], "name")
                                 \/ HasKey(d["list"].items[i], "path")})

\* C12: the shapes are tried in the order new-FastLink, legacy list, strict
\* canonical, and the first that matches handles the document: a document
\* with a versioned files list is accepted keeping its files and its other
\* fields (a list key among them is not converted); without that, a
\* document with a list that is a list is accepted as the conversion of the
\* list, whatever else it holds.
C12_FirstShapeWins ==
    [][/\ (HasKey(vdDoc, "files") /\ vdDoc["files"].isList /\ HasMarker(vdDoc))
             => (vdOut'.ok /\ KeptAsNewShape(vdDoc, vdDoc'))
       /\ (/\ ~(HasKey(vdDoc, "files") /\ vdDoc["files"].isList /\ HasMarker(vdDoc))
           /\ HasKey(vdDoc, "list") /\ vdDoc["list"].isList)
             => (vdOut'.ok /\ ConvertedFromList(vdDoc, vdDoc'))]_vars

\* A document with a versioned files list and a list that is a list has
\* been validated.
C12_Witness ==
    /\ vdOut.called /\ vdOut.ok /\ HasMarker(vdDoc)
    /\ HasKey(vdDoc, "files") /\ Len(vdDoc["files"].items) > 0
    /\ HasKey(vdDoc, "list") /\ vdDoc["list"].isList /\ Len(vdDoc["list"].items) > 0


---------------------------------------------------------------------------
(* The record store as a state machine: one JsonData object, driven by the  *)
(* calls the GUI makes on it.                                              *)

MaxBatch == 2       \* records in a list handed to add_files
MaxPaths == 2       \* paths in a list handed to remove_files
MaxMerge == 2       \* files handed to merge_files

\* Documents found in the files opened.  A canonical one:
DocCanonical ==
    [files |-> ListV(<<Rec(<<"a">>, IntV(5), <<"E">>), Rec(<<"b">>, StrV(<<"7">>), <<"X">>)>>),
     totalFilesCount |-> 2, totalSize |-> 12]

\* one whose totals are not those of its files:
DocOtherTotals ==
    [files |-> ListV(<<Rec(<<"b">>, StrV(<<"7">>), <<"X">>)>>),
     totalFilesCount |-> 7, totalSize |-> 9]

\* one with a path twice:
DocPathTwice ==
    [files |-> ListV(<<Rec(<<"a">>, IntV(5), <<"E">>), Rec(<<"a">>, IntV(3), <<"Z">>)>>),
     totalFilesCount |-> 2, totalSize |-> 8]

\* one whose size is no number:
DocSizeNoNumber ==
    [files |-> ListV(<<Rec(<<"d">>, StrV(<<"x">>), <<"E">>)>>),
     totalFilesCount |-> 1, totalSize |-> 0]

\* a new-FastLink one with an element that is no object:
DocFastLink ==
    [scriptVersion |-> "1.0",
     files |-> ListV(<<[scalar |-> 0],
                       [name |-> <<"n">>, size |-> StrV(<<"7">>), hash |-> <<"H">>]>>)]

\* a legacy list:
DocLegacy ==
    [list |-> ListV(<<[name |-> <<"n">>, size |-> StrV(<<"4">>), hash |-> <<"H">>]>>)]

\* one the validator refuses.
DocRefused == [files |-> NotAList]

StoreDocs ==
    { DocCanonical, DocOtherTotals, DocPathTwice, DocSizeNoNumber,
      DocFastLink, DocLegacy, DocRefused }

StoreFiles == {Unreadable} \cup {FileOf(doc) : doc \in StoreDocs}

\* The files offered to merge_files: the totals and the repeated path of a
\* strict document make no difference to the merge.
MergeChoices ==
    {Unreadable} \cup {FileOf(doc) : doc \in StoreDocs \ {DocOtherTotals, DocPathTwice}}

\* Records as parse_link hands them to add_files: every field a string.
StoreRecords ==
    { Rec(<<"a">>, StrV(<<"1">>), <<"E">>),
      Rec(<<"B">>, StrV(<<"2">>), <<"X">>),
      Rec(<<"c">>, StrV(<<"x">>), <<"E">>) }

StorePaths == { <<"a">>, <<"B">>, <<"z">> }

\* Nothing has happened in the codec or the validator.
StoreIdle ==
    /\ lkFiles = << >> /\ lkLink = << >>
    /\ lkOut = [src |-> "none", done |-> {}, parse |-> NoParse, valid |-> NoValid]
    /\ vdDoc = << >> /\ vdOut = [called |-> FALSE, ok |-> FALSE, err |-> NoErr]

\* JsonData.__init__
Init ==
    /\ StoreIdle /\ MergeIdle /\ SplitIdle /\ IngestIdle /\ FnIdle
    /\ data = NoneData /\ files = << >> /\ shared = TRUE
    /\ written = << >>
    /\ last = [op |-> "none", outcome |-> "none", ret |-> 0]

\* The call op has ended in r.
Apply(op, r) ==
    /\ data' = r.data /\ files' = r.files /\ shared' = r.shared
    /\ last' = [op |-> op, outcome |-> r.outcome, ret |-> r.ret]

Load ==
    \E file \in StoreFiles :
        /\ Apply("load", load(data, files, shared, file))
        /\ written' = << >>
        /\ UNCHANGED <<linkVars, validVars, mergeVars, splitVars, ingestVars, fnVars>>

CreateNew ==
    /\ Apply("create_new", create_new)
    /\ written' = << >>
    /\ UNCHANGED <<linkVars, validVars, mergeVars, splitVars, ingestVars, fnVars>>

AddFiles ==
    \E new \in ListsUpTo(StoreRecords, MaxBatch) :
        /\ Apply("add_files", add_files(data, files, shared, new))
        /\ written' = << >>
        /\ UNCHANGED <<linkVars, validVars, mergeVars, splitVars, ingestVars, fnVars>>

RemoveFiles ==
    \E paths \in ListsUpTo(StorePaths, MaxPaths) :
        /\ Apply("remove_files", remove_files(data, files, shared, paths))
        /\ written' = << >>
        /\ UNCHANGED <<linkVars, validVars, mergeVars, splitVars, ingestVars, fnVars>>

\* The document of written is the one the call has written.
ApplyWrote(op, r) ==
    /\ Apply(op, r.after)
    /\ written' = r.wrote

Save ==
    \E io \in BOOLEAN :
        /\ ApplyWrote("save", save(data, files, shared, io))
        /\ UNCHANGED <<linkVars, validVars, mergeVars, splitVars, ingestVars, fnVars>>

MergeFiles ==
    \E inputs \in ListsUpTo(MergeChoices, MaxMerge), io \in BOOLEAN :
        /\ ApplyWrote("merge_files", merge_files(data, files, shared, inputs, io))
        /\ UNCHANGED <<linkVars, validVars, mergeVars, splitVars, ingestVars, fnVars>>

\* The four operations of JsonData that fill and change the store
NextStore == Load \/ CreateNew \/ AddFiles \/ RemoveFiles

SpecStore == Init /\ [][NextStore]_vars

Next == Load \/ CreateNew \/ AddFiles \/ RemoveFiles \/ Save \/ MergeFiles

Spec == Init /\ [][Next]_vars

---------------------------------------------------------------------------
(* Claims about the record store                                           *)

\* The totals of document d are those of its files.
TotalsMatch(d) ==
    /\ HasKey(d, "totalFilesCount") /\ HasKey(d, "totalSize")
    /\ d["totalFilesCount"] = Len(d["files"].items)
    /\ \A i \in 1..Len(d["files"].items) : SizeOk(d["files"].items[i])
    /\ d["totalSize"] = SumSizes(d["files"].items)

\* C1: in every state of a store that holds a document, reached by load,
\* create_new, add_files and remove_files, totalFilesCount is the number of
\* records in files and totalSize the sum of their sizes.
C1_TotalsAlwaysMatch == ~IsNone(data) => TotalsMatch(data)

\* C2: every document written by save carries totalFilesCount equal to the
\* number of records in its files and totalSize equal to their summed sizes,
\* however the store was filled (load, create_new and add_files /
\* remove_files, or a merged set installed by merge_files).
C2_WrittenTotalsMatch == ~IsNone(written) => TotalsMatch(written)

\* C3: in every reachable state of the store no two records have the same
\* path, compared exactly.
C3_PathsUnique ==
    \A i, j \in 1..Len(files) :
        (i # j /\ HasPath(files[i]) /\ HasPath(files[j]))
            => files[i]["path"] # files[j]["path"]

\* C4: no operation leaves the store partially updated; here the half of it
\* about failure: when load, add_files or remove_files returns an error or
\* raises, files and the document with its totals are as before the call.
C4_FailureLeavesStore ==
    [][(last'.op \in {"load", "add_files", "remove_files"} /\ last'.outcome # "ok")
          => (files' = files /\ data' = data)]_vars

\* The step is the call add_files(new) with what the code makes of it.
AddStep(new) ==
    /\ last'.op = "add_files"
    /\ Apply("add_files", add_files(data, files, shared, new))

\* The positions of batch new whose record the claim has appended to a
\* store holding fs: the path is in no record of fs and in no earlier
\* record of the batch.
ClaimedAppended(fs, new) ==
    {i \in 1..Len(new) :
        /\ \A k \in 1..Len(fs) : HasPath(fs[k]) => fs[k]["path"] # new[i]["path"]
        /\ \A j \in 1..(i - 1) : new[j]["path"] # new[i]["path"]}

\* The elements of sequence q
Elements(q) == {q[i] : i \in 1..Len(q)}

\* C13: add_files(new) appends a record if and only if its path is neither
\* in the store nor carried by an earlier record of the batch, existing
\* records stay, and it returns the number of records appended (two records
\* with one path added to an empty store: one record, 1 returned).
C13_AddFirstSeen ==
    [][\A new \in ListsUpTo(StoreRecords, MaxBatch) :
          AddStep(new) =>
              /\ last'.outcome = "ok"
              /\ last'.ret = Cardinality(ClaimedAppended(files, new))
              /\ Len(files') = Len(files) + Cardinality(ClaimedAppended(files, new))
              /\ Elements(files') =
                     Elements(files) \cup {new[i] : i \in ClaimedAppended(files, new)}]_vars

\* The step is the call remove_files(paths) with what the code makes of it.
RemoveStep(paths) ==
    /\ last'.op = "remove_files"
    /\ Apply("remove_files", remove_files(data, files, shared, paths))

\* The records of fs whose path is none of ps, in their order
RECURSIVE Remaining(_, _)
Remaining(fs, ps) ==
    IF fs = << >> THEN << >>
    ELSE IF HasPath(Head(fs)) /\ Head(fs)["path"] \in ps THEN Remaining(Tail(fs), ps)
    ELSE <<Head(fs)>> \o Remaining(Tail(fs), ps)

\* C14: remove_files(paths) removes exactly the records whose path is in
\* paths, keeps the others in their order, recomputes the totals, and
\* returns the number of distinct requested paths, in the store or not.
C14_RemoveExactly ==
    [][\A paths \in ListsUpTo(StorePaths, MaxPaths) :
          RemoveStep(paths) =>
              /\ last'.outcome = "ok"
              /\ last'.ret = Cardinality(Elements(paths))
              /\ files' = Remaining(files, Elements(paths))
              /\ ~IsNone(data') => TotalsMatch(data')]_vars

---------------------------------------------------------------------------
(* merge_json_files as a state machine: the files are chosen, then the     *)
(* call is made.                                                           *)

\* A document whose record for path a is not the one of DocCanonical, with
\* a path in upper case.
DocOtherRecord ==
    [files |-> ListV(<<Rec(<<"a">>, IntV(9), <<"Q">>), Rec(<<"B">>, IntV(1), <<"Y">>)>>),
     totalFilesCount |-> 2, totalSize |-> 10]

MergeInputs == StoreFiles \cup {FileOf(DocOtherRecord)}

InitMerge ==
    /\ StoreIdle /\ SplitIdle /\ IngestIdle /\ FnIdle
    /\ data = NoneData /\ files = << >> /\ shared = TRUE /\ written = << >>
    /\ last = [op |-> "none", outcome |-> "none", ret |-> 0]
    /\ mgIn \in ListsUpTo(MergeInputs, MaxMerge)
    /\ mgOut = NoMergeCall

\* merged_data, total_added = JsonData.merge_json_files(filepaths)
MergeCall ==
    /\ ~mgOut.called
    /\ mgOut' = [called |-> TRUE,
                 raised |-> merge_json_files(mgIn).raised,
                 data |-> merge_json_files(mgIn).data,
                 added |-> merge_json_files(mgIn).added]
    /\ UNCHANGED <<mgIn, storeVars, linkVars, validVars, splitVars, ingestVars, fnVars>>

NextMerge == MergeCall

SpecMerge == InitMerge /\ [][NextMerge]_vars

---------------------------------------------------------------------------
(* Claims about merge_json_files                                           *)

\* The file can be read and the validator accepts its document.
Accepted(file) == file.readable /\ is_valid_123_json(file.doc).ok

\* The files of every accepted input, in the order of the inputs
RECURSIVE Collected(_)
Collected(inputs) ==
    IF inputs = << >> THEN << >>
    ELSE (IF Accepted(Head(inputs))
          THEN is_valid_123_json(Head(inputs).doc).doc["files"].items
          ELSE << >>) \o Collected(Tail(inputs))

\* The positions of q holding the first record of their path
FirstOfPath(q) ==
    {i \in 1..Len(q) : \A j \in 1..(i - 1) : q[j]["path"] # q[i]["path"]}

\* The files of the merge result, none for a null result
ResultFiles == IF IsNone(mgOut.data) THEN << >> ELSE mgOut.data["files"].items

\* C15: merge keeps, for each path, the first record met across all sets in
\* the given order and within a set, and discards every later one; merging
\* a set with itself gives what the set taken once gives.
C15_FirstSeenKept ==
    (mgOut.called /\ ~mgOut.raised) =>
        /\ Elements(ResultFiles) =
               {Collected(mgIn)[i] : i \in FirstOfPath(Collected(mgIn))}
        /\ Len(ResultFiles) = Cardinality(FirstOfPath(Collected(mgIn)))
        /\ (mgIn # << >> /\ \A i \in 1..Len(mgIn) : mgIn[i] = mgIn[1])
              => /\ mgOut.data = merge_json_files(<<mgIn[1]>>).data
                 /\ mgOut.added = merge_json_files(<<mgIn[1]>>).added

\* A merge has returned for inputs in which a path comes with two records
\* that differ.
C15_Witness ==
    /\ mgOut.called /\ ~mgOut.raised /\ ~IsNone(mgOut.data)
    /\ \E i, j \in 1..Len(Collected(mgIn)) :
           /\ i < j
           /\ Collected(mgIn)[i]["path"] = Collected(mgIn)[j]["path"]
           /\ Collected(mgIn)[i] # Collected(mgIn)[j]

\* The records of fs are in ascending order of their lower-cased path.
SortedByLowerPath(fs) ==
    \A i, j \in 1..Len(fs) :
        i < j => ~StrLess(Lower(fs[j]["path"]), Lower(fs[i]["path"]))

\* C16: a merge result that is not null has its files sorted ascending by
\* lower-cased path with pairwise distinct paths, totalFilesCount equal to
\* the number of files and to the added count, and totalSize equal to the
\* sum of the sizes; the result is null, with count 0, exactly when no file
\* was collected.
C16_MergeResult ==
    (mgOut.called /\ ~mgOut.raised) =>
        /\ ~IsNone(mgOut.data) =>
              /\ SortedByLowerPath(ResultFiles)
              /\ \A i, j \in 1..Len(ResultFiles) :
                     i # j => ResultFiles[i]["path"] # ResultFiles[j]["path"]
              /\ TotalsMatch(mgOut.data)
              /\ mgOut.data["totalFilesCount"] = mgOut.added
        /\ IsNone(mgOut.data) <=> Collected(mgIn) = << >>
        /\ IsNone(mgOut.data) => mgOut.added = 0

\* A merge has returned three files or more, one with an upper-case path.
C16_Witness ==
    /\ mgOut.called /\ ~mgOut.raised /\ ~IsNone(mgOut.data)
    /\ Len(ResultFiles) >= 3
    /\ \E i \in 1..Len(ResultFiles) :
           Lower(ResultFiles[i]["path"]) # ResultFiles[i]["path"]

\* The inputs of q that are accepted, in their order
RECURSIVE AcceptedOnly(_)
AcceptedOnly(q) ==
    IF q = << >> THEN << >>
    ELSE (IF Accepted(Head(q)) THEN <<Head(q)>> ELSE << >>) \o AcceptedOnly(Tail(q))

\* C17: a bad input never aborts the merge: an input that cannot be read or
\* fails validation is skipped, malformed entries inside an input do not
\* make merge raise, and the result is the merge of the remaining inputs in
\* the same order.
C17_MergeNeverAborts ==
    mgOut.called =>
        /\ ~mgOut.raised
        /\ ~merge_json_files(AcceptedOnly(mgIn)).raised
        /\ mgOut.data = merge_json_files(AcceptedOnly(mgIn)).data
        /\ mgOut.added = merge_json_files(AcceptedOnly(mgIn)).added

(***************************************************************************)
(* The splitter (src/utils/json_splitter.py).  Its three functions take    *)
(* the document read from the chosen file; they are modelled as operators  *)
(* on a document d whose "files" is a list.                                *)
(***************************************************************************)

\* p.split('.')[-1]
DotSuffix(p) == DropFirst(p, LastIndexOf(p, "."))

\* x in extensions, extensions being a list
InList(x, l) == \E i \in 1..Len(l) : l[i] = x

\* '.' in f['path'] and f['path'].split('.')[-1].lower() in extensions
ExtensionListed(item, exts) ==
    /\ LastIndexOf(item["path"], ".") # 0
    /\ InList(Lower(DotSuffix(item["path"])), exts)

\* filter_json_files(json_data, extensions)
filter_json_files(d, exts) ==
    IF exts = << >> THEN d
    ELSE SetKey(d, "files",
                ListV(SelectSeq(d["files"].items, LAMBDA f : ~ExtensionListed(f, exts))))

\* The copy of json_data without files, totalFilesCount, totalSize and
\* formattedTotalSize.
base_metadata(d) ==
    [k \in DOMAIN d \ {"files", "totalFilesCount", "totalSize", "formattedTotalSize"} |-> d[k]]

\* f.get('size', 0)
GetSize(item) == IF HasKey(item, "size") THEN item["size"] ELSE IntV(0)

\* int(f.get('size', 0)) returns
GetSizeOk(item) == IsDict(item) /\ IntOk(GetSize(item))

RECURSIVE ChunkTotalInts(_)
\* The sum of the sizes that are numbers already, a size kept as a string
\* counting for nothing.
ChunkTotalInts(fs) ==
    IF fs = << >> THEN 0
    ELSE (IF GetSize(Head(fs)).t = "int" THEN IntOf(GetSize(Head(fs))) ELSE 0)
         + ChunkTotalInts(Tail(fs))

RECURSIVE ChunkTotal(_)
\* sum(int(f.get('size', 0)) for f in chunk_files)
ChunkTotal(fs) ==
    IF fs = << >> THEN 0 ELSE IntOf(GetSize(Head(fs))) + ChunkTotal(Tail(fs))

\* chunk_json: the metadata with the chunk's files and its two totals
chunk_json(meta, fs) ==
    SetKey(SetKey(SetKey(meta, "files", ListV(fs)), "totalFilesCount", Len(fs)),
           "totalSize", ChunkTotal(fs))

RECURSIVE CountSlicesNoTail(_, _)
\* The slices of chunk_size files only, a shorter last one being left out.
CountSlicesNoTail(fs, n) ==
    IF Len(fs) < n THEN << >>
    ELSE <<SubSeq(fs, 1, n)>> \o CountSlicesNoTail(DropFirst(fs, n), n)

RECURSIVE CountSlices(_, _)
\* files[i:i+chunk_size] for i in range(0, len(files), chunk_size)
CountSlices(fs, n) ==
    IF fs = << >> THEN << >>
    ELSE IF Len(fs) <= n THEN <<fs>>
    ELSE <<SubSeq(fs, 1, n)>> \o CountSlices(DropFirst(fs, n), n)

\* The chunks of split_json_by_count, one for each slice.
CountChunks(meta, slices) == [i \in 1..Len(slices) |-> chunk_json(meta, slices[i])]

\* split_json_by_count(json_data, chunk_size): raised is the ValueError of a
\* chunk_size that is not positive, or the exception of int() on a size.
split_json_by_count(d, n) ==
    IF n <= 0 THEN [raised |-> TRUE, chunks |-> << >>]
    ELSE IF \E i \in 1..Len(d["files"].items) : ~GetSizeOk(d["files"].items[i])
    THEN [raised |-> TRUE, chunks |-> << >>]
    ELSE [raised |-> FALSE,
          chunks |-> CountChunks(base_metadata(d), CountSlices(d["files"].items, n))]

\* json_data.get('commonPath') or ''
CommonPathOf(d) == IF HasKey(d, "commonPath") THEN d["commonPath"] ELSE << >>

\* common_path of split_json_by_folder: the commonPath with its trailing
\* slashes replaced by one, '' when there is no commonPath
common_path(d) ==
    RStripChars(CommonPathOf(d), {"/"}) \o (IF CommonPathOf(d) # << >> THEN <<"/">> ELSE << >>)

\* [p for p in full_path.split('/') if p]
PathParts(full) == SelectSeq(Split(full, "/"), LAMBDA p : p # << >>)

\* The name of the group of the files above the requested level
RootKey == <<"_", "r", "o", "o", "t", "_">>

RECURSIVE JoinParts(_)
\* '/'.join(parts)
JoinParts(parts) ==
    IF parts = << >> THEN << >>
    ELSE IF Len(parts) = 1 THEN parts[1]
    ELSE parts[1] \o <<"/">> \o JoinParts(Tail(parts))

\* group_key of the loop over the files, dir_parts being parts[:-1]
GroupKeyOf(parts, level) ==
    IF Len(parts) - 1 >= level /\ Len(parts) >= 1
    THEN JoinParts(SubSeq(parts, 1, level))
    ELSE RootKey

\* group_key of a file whose full path is full
group_key(full, level) == GroupKeyOf(PathParts(full), level)

RECURSIVE FolderKeys(_, _, _, _)
\* The keys of folders in the order of their insertion.
FolderKeys(fs, cp, level, seen) ==
    IF fs = << >> THEN << >>
    ELSE IF group_key(cp \o Head(fs)["path"], level) \in seen
    THEN FolderKeys(Tail(fs), cp, level, seen)
    ELSE <<group_key(cp \o Head(fs)["path"], level)>>
         \o FolderKeys(Tail(fs), cp, level, seen \cup {group_key(cp \o Head(fs)["path"], level)})

\* folders[key]
FilesInGroup(fs, cp, level, key) ==
    SelectSeq(fs, LAMBDA f : group_key(cp \o f["path"], level) = key)

\* f2: the copy of f with new_rel_path = full_path[len(group_key):].lstrip('/')
RelativeTo(f, cp, key) ==
    SetKey(f, "path", LStripChars(DropFirst(cp \o f["path"], Len(key)), {"/"}))

\* The chunk of one group.
FolderChunk(meta, fs, cp, key) ==
    IF key = RootKey
    THEN SetKey(chunk_json(meta, fs), "commonPath", cp)
    ELSE SetKey(chunk_json(meta, [i \in 1..Len(fs) |-> RelativeTo(fs[i], cp, key)]),
                "commonPath", key \o <<"/">>)

\* The chunks of split_json_by_folder, one for each key.
FolderChunks(meta, fs, cp, level, keys) ==
    [i \in 1..Len(keys) |-> FolderChunk(meta, FilesInGroup(fs, cp, level, keys[i]), cp, keys[i])]

\* split_json_by_folder(json_data, level): raised is the ValueError of a level
\* that is not positive, or the exception of int() on a size.
split_json_by_folder(d, level) ==
    IF level <= 0 THEN [raised |-> TRUE, chunks |-> << >>]
    ELSE IF \E i \in 1..Len(d["files"].items) : ~GetSizeOk(d["files"].items[i])
    THEN [raised |-> TRUE, chunks |-> << >>]
    ELSE [raised |-> FALSE,
          chunks |-> FolderChunks(base_metadata(d), d["files"].items, common_path(d), level,
                                  FolderKeys(d["files"].items, common_path(d), level, {}))]

(***************************************************************************)
(* The splitter as a state machine: a document is chosen, then one of the  *)
(* three functions is called on it once.                                   *)
(***************************************************************************)

\* Longest file list of a document given to the splitter
MaxSplit == 3
\* Largest chunk_size and level
MaxLevel == 2

\* Records of the documents: a file at the top, files one and two
\* directories down, a path that starts with a slash, a dotted name with an
\* upper-case extension, and a file in a directory that is called _root_.
\* Every size is one int() accepts, as
\* analyze_json_structure has converted them all before a split is offered.
SplitRecords ==
    { Rec(<<"f">>, IntV(1), <<"E">>),
      Rec(<<"a", "/", "f">>, IntV(2), <<"X">>),
      Rec(<<"a", "/", "b", "/", "g">>, StrV(<<"7">>), <<"Y">>),
      Rec(<<"/", "a", "/", "f">>, IntV(1), <<"Z">>),
      Rec(<<"a", "/", "h", ".", "J">>, IntV(3), <<"Q">>),
      Rec(RootKey \o <<"/", "f">>, IntV(4), <<"R">>) }

\* A document with the given files, with or without a commonPath.
SplitDoc(fs, cp) ==
    IF cp = <<"-">>
    THEN [files |-> ListV(fs), totalFilesCount |-> Len(fs), totalSize |-> 0]
    ELSE [files |-> ListV(fs), totalFilesCount |-> Len(fs), totalSize |-> 0, commonPath |-> cp]

\* No commonPath (written "-"), one without and one with the trailing slash
SplitCommonPaths == {<<"-">>, <<"c">>, <<"c", "/">>}

SplitDocs == {SplitDoc(fs, cp) : fs \in ListsUpTo(SplitRecords, MaxSplit), cp \in SplitCommonPaths}

\* Extension lists: none, a lower-case and an upper-case one
SplitExts == {<< >>, <<<<"j">>>>, <<<<"J">>>>, <<<<"x">>, <<"j">>>>}

InitSplit ==
    /\ StoreIdle /\ MergeIdle /\ IngestIdle /\ FnIdle
    /\ data = NoneData /\ files = << >> /\ shared = TRUE /\ written = << >>
    /\ last = [op |-> "none", outcome |-> "none", ret |-> 0]
    /\ spDoc \in SplitDocs
    /\ spArg = [n |-> 0, exts |-> << >>]
    /\ spOut = NoSplitCall

FilterCall ==
    /\ spOut.op = "none"
    /\ \E exts \in SplitExts :
         /\ spArg' = [n |-> 0, exts |-> exts]
         /\ spOut' = [op |-> "filter", raised |-> FALSE,
                      chunks |-> <<filter_json_files(spDoc, exts)>>]
    /\ UNCHANGED <<spDoc, storeVars, linkVars, validVars, mergeVars, ingestVars, fnVars>>

SplitByCount ==
    /\ spOut.op = "none"
    /\ \E n \in (-1)..MaxLevel :
         /\ spArg' = [n |-> n, exts |-> << >>]
         /\ spOut' = [op |-> "count", raised |-> split_json_by_count(spDoc, n).raised,
                      chunks |-> split_json_by_count(spDoc, n).chunks]
    /\ UNCHANGED <<spDoc, storeVars, linkVars, validVars, mergeVars, ingestVars, fnVars>>

SplitByFolder ==
    /\ spOut.op = "none"
    /\ \E n \in (-1)..MaxLevel :
         /\ spArg' = [n |-> n, exts |-> << >>]
         /\ spOut' = [op |-> "folder", raised |-> split_json_by_folder(spDoc, n).raised,
                      chunks |-> split_json_by_folder(spDoc, n).chunks]
    /\ UNCHANGED <<spDoc, storeVars, linkVars, validVars, mergeVars, ingestVars, fnVars>>

NextSplit == FilterCall \/ SplitByCount \/ SplitByFolder

SpecSplit == InitSplit /\ [][NextSplit]_vars

(***************************************************************************)
(* Claims about the splitter.                                              *)
(***************************************************************************)

\* The files of the document given to the splitter.
SplitInput == spDoc["files"].items

\* The full paths of the input: its commonPath, ending in one slash, joined
\* with each path.
OriginalFullPaths == [i \in 1..Len(SplitInput) |-> common_path(spDoc) \o SplitInput[i]["path"]]

RECURSIVE ChunkFullPaths(_)
\* The commonPath of each chunk joined with the path of each of its records.
ChunkFullPaths(chunks) ==
    IF chunks = << >> THEN << >>
    ELSE [i \in 1..Len(Head(chunks)["files"].items) |->
             Head(chunks)["commonPath"] \o Head(chunks)["files"].items[i]["path"]]
         \o ChunkFullPaths(Tail(chunks))

\* How often x occurs in q.
Occurrences(x, q) == Cardinality({i \in 1..Len(q) : q[i] = x})

\* a and b hold the same elements the same number of times.
SameMultiset(a, b) ==
    /\ Len(a) = Len(b)
    /\ \A i \in 1..Len(a) : Occurrences(a[i], a) = Occurrences(a[i], b)

\* C18: for a positive level, split_json_by_folder returns, and the
\* commonPath of each chunk joined with the paths of its records gives the
\* multiset of the full paths of the input: no record dropped, none twice.
C18_FolderSplitKeepsPaths ==
    (spOut.op = "folder" /\ spArg.n > 0) =>
        /\ ~spOut.raised
        /\ SameMultiset(OriginalFullPaths, ChunkFullPaths(spOut.chunks))

RECURSIVE ChunkFiles(_)
\* The files of the chunks, one chunk after the other.
ChunkFiles(chunks) ==
    IF chunks = << >> THEN << >>
    ELSE Head(chunks)["files"].items \o ChunkFiles(Tail(chunks))

\* ceil(a / b) for b > 0
CeilDiv(a, b) == (a + b - 1) \div b

\* C19: for a positive chunk_size, split_json_by_count returns
\* ceil(n / chunk_size) chunks, each but the last of chunk_size files, whose
\* files in order are the files of the input; a chunk_size that is not
\* positive raises and gives no chunk.
C19_CountSplit ==
    spOut.op = "count" =>
        IF spArg.n <= 0
        THEN spOut.raised /\ spOut.chunks = << >>
        ELSE /\ ~spOut.raised
             /\ Len(spOut.chunks) = CeilDiv(Len(SplitInput), spArg.n)
             /\ \A i \in 1..(Len(spOut.chunks) - 1) :
                    Len(spOut.chunks[i]["files"].items) = spArg.n
             /\ ChunkFiles(spOut.chunks) = SplitInput

\* C19, its case: three files split two by two, the last chunk being shorter.
C19_Witness ==
    /\ spOut.op = "count" /\ spArg.n = 2 /\ ~spOut.raised
    /\ Len(SplitInput) = 3
    /\ Len(spOut.chunks) = 2
    /\ Len(spOut.chunks[2]["files"].items) = 1

\* The test of an extension with the listed extensions lower-cased as well.
ExtensionListedAnyCase(item, exts) ==
    /\ LastIndexOf(item["path"], ".") # 0
    /\ InList(Lower(DotSuffix(item["path"])), [i \in 1..Len(exts) |-> Lower(exts[i])])

\* C20: filter_json_files keeps, in their order and unchanged, exactly the
\* records whose path has no '.' or whose text after the last '.' is, case
\* ignored on both sides, none of the excluded extensions.
C20_FilterByExtension ==
    spOut.op = "filter" =>
        spOut.chunks[1]["files"].items
            = SelectSeq(SplitInput, LAMBDA f : ~ExtensionListedAnyCase(f, spArg.exts))

(***************************************************************************)
(* Ingestion of several links in the background                            *)
(* (LinkPanel._process_links_in_background, App.batch_add_links).          *)
(* The worker thread runs process_link; the UI thread runs the cancel      *)
(* button, the poller check_result and, when no window holds the grab,     *)
(* the handlers that change the store.  A link is what App.add_link does   *)
(* with it: "ok" (files added), "fail" (refused before the store is        *)
(* touched) or "raise" (add_files raises).                                 *)
(***************************************************************************)

\* Most links of one run
MaxLinks == 4
\* batch_size of process_link, scaled down from 100
BatchSize == 2

LinkKinds == {"ok", "fail", "raise"}

\* An item of result_queue; pair tells whether it is a (status, data) tuple.
Item(status, pair) == [status |-> status, pair |-> pair]

\* links[i:i+batch_size] has this many links
BatchLen(w) ==
    IF Len(w.links) - w.i < BatchSize THEN Len(w.links) - w.i ELSE BatchSize

\* The link add_link is called with next
CurrentLink(w) == w.links[w.i + w.k + 1]

\* The state when _process_links_in_background returns: the window holds
\* the grab, the thread is started, check_result is scheduled.
InitIngest ==
    /\ StoreIdle /\ MergeIdle /\ SplitIdle /\ FnIdle
    /\ data = NoneData /\ files = << >> /\ shared = TRUE /\ written = << >>
    /\ last = [op |-> "none", outcome |-> "none", ret |-> 0]
    /\ \E ls \in ListsUpTo(LinkKinds, MaxLinks) :
         worker = [NoWorker EXCEPT !.pc = "start", !.links = ls]
    /\ dialog = [NoDialog EXCEPT !.window = TRUE, !.poll = TRUE]
    /\ result_queue = << >>

IngestRest == UNCHANGED <<storeVars, linkVars, validVars, mergeVars, splitVars, fnVars>>

\* process_link up to the loop: no link gives the error result
Extract ==
    /\ worker.pc = "start"
    /\ IF worker.links = << >>
       THEN /\ worker' = [worker EXCEPT !.pc = "done"]
            /\ result_queue' = Append(result_queue, Item("error", TRUE))
       ELSE /\ worker' = [worker EXCEPT !.pc = "loop"]
            /\ UNCHANGED result_queue
    /\ UNCHANGED dialog
    /\ IngestRest

\* The loop is over: result_queue.put(("success", result))
Finish ==
    /\ worker.pc = "loop" /\ worker.i >= Len(worker.links)
    /\ worker' = [worker EXCEPT !.pc = "done"]
    /\ result_queue' = Append(result_queue, Item("success", TRUE))
    /\ UNCHANGED dialog
    /\ IngestRest

\* The check of cancel_var made before every link of a batch as well.
ObserveCancelAnywhere ==
    /\ worker.pc \in {"loop", "batch"} /\ worker.i < Len(worker.links)
    /\ ~worker.mutating
    /\ dialog.cancel
    /\ worker' = [worker EXCEPT !.pc = "done", !.observed = TRUE]
    /\ result_queue' = Append(result_queue, Item("cancelled", FALSE))
    /\ UNCHANGED dialog
    /\ IngestRest

\* if cancel_var.get(): result_queue.put("cancelled", "处理已取消"); return
\* The item put is the string alone, the second argument being block.
ObserveCancel ==
    /\ worker.pc = "loop" /\ worker.i < Len(worker.links)
    /\ dialog.cancel
    /\ worker' = [worker EXCEPT !.pc = "done", !.observed = TRUE]
    /\ result_queue' = Append(result_queue, Item("cancelled", FALSE))
    /\ UNCHANGED dialog
    /\ IngestRest

\* batch = links[i:i+batch_size]; batch_add_links(batch) is entered
StartBatch ==
    /\ worker.pc = "loop" /\ worker.i < Len(worker.links)
    /\ ~dialog.cancel
    /\ worker' = [worker EXCEPT !.pc = "batch", !.k = 0, !.batch_success = 0]
    /\ UNCHANGED <<dialog, result_queue>>
    /\ IngestRest

\* add_link(link, batch_mode=True) returns False before it touches the store
AddLinkRefused ==
    /\ worker.pc = "batch" /\ worker.k < BatchLen(worker)
    /\ CurrentLink(worker) = "fail"
    /\ worker' = [worker EXCEPT !.k = @ + 1]
    /\ UNCHANGED <<dialog, result_queue>>
    /\ IngestRest

\* add_link reaches create_new / add_files: the store is being changed
AddLinkBegin ==
    /\ worker.pc = "batch" /\ worker.k < BatchLen(worker)
    /\ CurrentLink(worker) # "fail"
    /\ ~worker.mutating
    /\ worker' = [worker EXCEPT !.mutating = TRUE]
    /\ UNCHANGED <<dialog, result_queue>>
    /\ IngestRest

\* add_files returns, or raises: the exception leaves batch_add_links and
\* process_link puts ("error", str(e))
AddLinkEnd ==
    /\ worker.pc = "batch" /\ worker.mutating
    /\ IF CurrentLink(worker) = "raise"
       THEN /\ worker' = [worker EXCEPT !.pc = "done", !.mutating = FALSE]
            /\ result_queue' = Append(result_queue, Item("error", TRUE))
       ELSE /\ worker' = [worker EXCEPT !.mutating = FALSE, !.k = @ + 1,
                                        !.batch_success = @ + 1]
            /\ UNCHANGED result_queue
    /\ UNCHANGED dialog
    /\ IngestRest

\* The end of batch_add_links: json_data.save when a link of the batch
\* succeeded; then the sums of process_link.  saves holds the number of the
\* batch after which each save was made.
BatchEnd ==
    /\ worker.pc = "batch" /\ worker.k = BatchLen(worker) /\ ~worker.mutating
    /\ worker' = [worker EXCEPT
                    !.pc = "loop",
                    !.saves = IF worker.batch_success > 0
                              THEN Append(@, worker.i \div BatchSize + 1) ELSE @,
                    !.success_count = @ + worker.batch_success,
                    !.i = @ + BatchSize,
                    !.k = 0]
    /\ UNCHANGED <<dialog, result_queue>>
    /\ IngestRest

\* The cancel button: cancel_var.set(True), progress_window.destroy()
Cancel ==
    /\ dialog.window /\ ~dialog.mutating
    /\ dialog' = [dialog EXCEPT !.cancel = TRUE, !.window = FALSE]
    /\ UNCHANGED <<worker, result_queue>>
    /\ IngestRest

\* The window is closed by its title bar: destroyed, cancel_var untouched
CloseWindow ==
    /\ dialog.window /\ ~dialog.mutating
    /\ dialog' = [dialog EXCEPT !.window = FALSE]
    /\ UNCHANGED <<worker, result_queue>>
    /\ IngestRest

\* check_result with an item in the queue: a (status, data) item closes the
\* window and is reported; anything else makes the unpacking raise.
TakeResult ==
    /\ dialog.poll /\ ~dialog.mutating
    /\ result_queue # << >>
    /\ result_queue' = Tail(result_queue)
    /\ dialog' = IF Head(result_queue).pair
                 THEN [dialog EXCEPT !.poll = FALSE, !.window = FALSE,
                                     !.reported = Head(result_queue).status]
                 ELSE [dialog EXCEPT !.poll = FALSE, !.reported = "raised"]
    /\ UNCHANGED worker
    /\ IngestRest

\* check_result with an empty queue: scheduled again only while the window
\* exists
PollEmpty ==
    /\ dialog.poll /\ ~dialog.mutating
    /\ result_queue = << >>
    /\ dialog' = [dialog EXCEPT !.poll = dialog.window]
    /\ UNCHANGED <<worker, result_queue>>
    /\ IngestRest

\* A handler of the main window that changes the store (App.add_link,
\* TreeView.delete_selected, App.sort_current_file, App.load_json_file)
\* starts: the progress window, while it exists, holds the grab.
UiMutateBegin ==
    /\ ~dialog.window /\ ~dialog.mutating
    /\ dialog' = [dialog EXCEPT !.mutating = TRUE]
    /\ UNCHANGED <<worker, result_queue>>
    /\ IngestRest

\* The handler returns.
UiMutateEnd ==
    /\ dialog.mutating
    /\ dialog' = [dialog EXCEPT !.mutating = FALSE]
    /\ UNCHANGED <<worker, result_queue>>
    /\ IngestRest

WorkerNext ==
    \/ Extract \/ Finish \/ ObserveCancel \/ StartBatch
    \/ AddLinkRefused \/ AddLinkBegin \/ AddLinkEnd \/ BatchEnd

PollerNext == TakeResult \/ PollEmpty

NextIngest ==
    \/ WorkerNext \/ PollerNext
    \/ Cancel \/ CloseWindow \/ UiMutateBegin \/ UiMutateEnd

SpecIngest == InitIngest /\ [][NextIngest]_vars

\* The thread runs on, and Tk runs a scheduled check_result.
\* The thread runs on, a handler returns, and Tk runs a scheduled
\* check_result once the UI thread is free.
SpecIngestLive ==
    SpecIngest /\ WF_vars(WorkerNext) /\ WF_vars(UiMutateEnd) /\ SF_vars(PollerNext)

(***************************************************************************)
(* Claims about the ingestion in the background.                           *)
(***************************************************************************)

\* The number of the last batch of the run.
LastBatch == (Len(worker.links) + BatchSize - 1) \div BatchSize

\* C21: the store is saved after the last batch only, and exactly once when
\* every batch has been processed and a link has succeeded.
C21_SavedOnceAtEnd ==
    /\ \A j \in 1..Len(worker.saves) : worker.saves[j] = LastBatch
    /\ (worker.pc = "done" /\ worker.i >= Len(worker.links) /\ worker.success_count > 0)
           => Len(worker.saves) = 1

\* C22: the worker and a handler of the UI thread never change the store at
\* the same time.
C22_MutationsSerialized == ~(worker.mutating /\ dialog.mutating)

Statuses == {"success", "error", "cancelled"}

\* C30: the worker ends with one (status, data) item put, and the poller
\* eventually takes it and reports its status.
C30_ResultReported ==
    /\ [](worker.pc = "done" =>
            (result_queue = << >> \/
             (Len(result_queue) = 1 /\ result_queue[1].pair
              /\ result_queue[1].status \in Statuses)))
    /\ <>(dialog.reported \in Statuses)

(***************************************************************************)
(* The sorter (src/utils/file_sorter.py) as a state machine: a document is *)
(* sorted, the result is sorted again and checked.                         *)
(***************************************************************************)

\* check_if_needs_sort(data) for a dict: (not is_sorted, sorted_data), raised
\* when an element of files has no .get
check_if_needs_sort(d) ==
    IF ~HasKey(d, "files") THEN [raised |-> FALSE, needs |-> FALSE, data |-> d]
    ELSE IF ~d["files"].isList THEN [raised |-> FALSE, needs |-> FALSE, data |-> d]
    ELSE IF \E i \in 1..Len(d["files"].items) : ~IsDict(d["files"].items[i])
    THEN [raised |-> TRUE, needs |-> FALSE, data |-> d]
    ELSE IF d["files"].items = SortedByPath(d["files"].items)
    THEN [raised |-> FALSE, needs |-> FALSE, data |-> d]
    ELSE [raised |-> FALSE, needs |-> TRUE,
          data |-> SetKey(d, "files", ListV(SortedByPath(d["files"].items)))]

\* Longest file list of a document given to the sorter
MaxSort == 3

\* Elements of the documents: paths that differ in case only, a path in a
\* directory, an element without path, and one that is no object.
SortItems ==
    { Rec(<<"a">>, IntV(1), <<"E">>),
      Rec(<<"A">>, IntV(2), <<"X">>),
      Rec(<<"B">>, IntV(3), <<"Y">>),
      Rec(<<"a", "/", "b">>, IntV(4), <<"Z">>),
      [size |-> IntV(5), etag |-> <<"Q">>],
      [scalar |-> 0] }

SortDocs ==
    {[files |-> ListV(fs), totalFilesCount |-> Len(fs), totalSize |-> 0] :
         fs \in ListsUpTo(SortItems, MaxSort)}
    \cup {[files |-> NotAList, totalFilesCount |-> 0, totalSize |-> 0],
          [totalFilesCount |-> 0, totalSize |-> 0]}

\* Every variable but those of the sorter and the directory index is idle.
FnOnly ==
    /\ StoreIdle /\ MergeIdle /\ SplitIdle /\ IngestIdle
    /\ data = NoneData /\ files = << >> /\ shared = TRUE /\ written = << >>
    /\ last = [op |-> "none", outcome |-> "none", ret |-> 0]

FnRest == UNCHANGED <<fnDoc, storeVars, linkVars, validVars, mergeVars, splitVars, ingestVars>>

InitSort ==
    /\ FnOnly
    /\ fnDoc \in SortDocs
    /\ fnOut = NoFnCall

\* sort_json_data(fnDoc)
SortCall ==
    /\ fnOut.op = "none"
    /\ fnOut' = [op |-> "sort", raised |-> sort_json_data(fnDoc).raised,
                 result |-> sort_json_data(fnDoc).data]
    /\ FnRest

\* sort_json_data on the result of sort_json_data
SortAgain ==
    /\ fnOut.op = "sort" /\ ~fnOut.raised
    /\ fnOut' = [op |-> "sort twice", raised |-> sort_json_data(fnOut.result).raised,
                 result |-> [once |-> fnOut.result,
                             twice |-> sort_json_data(fnOut.result).data]]
    /\ FnRest

\* check_if_needs_sort on the result of sort_json_data
CheckSorted ==
    /\ fnOut.op = "sort" /\ ~fnOut.raised
    /\ fnOut' = [op |-> "check", raised |-> check_if_needs_sort(fnOut.result).raised,
                 result |-> [once |-> fnOut.result,
                             needs |-> check_if_needs_sort(fnOut.result).needs,
                             data |-> check_if_needs_sort(fnOut.result).data]]
    /\ FnRest

\* check_if_needs_sort(fnDoc), as check_and_sort_json_file calls it
CheckCall ==
    /\ fnOut.op = "none"
    /\ fnOut' = [op |-> "check first", raised |-> check_if_needs_sort(fnDoc).raised,
                 result |-> [needs |-> check_if_needs_sort(fnDoc).needs,
                             data |-> check_if_needs_sort(fnDoc).data]]
    /\ FnRest

NextSort == SortCall \/ SortAgain \/ CheckSorted \/ CheckCall

SpecSort == InitSort /\ [][NextSort]_vars

(***************************************************************************)
(* Claims about the sorter.                                                *)
(***************************************************************************)

\* The files of a document that has a list of files.
FilesOf(d) == d["files"].items

\* q is in ascending order of the lower-cased paths.
Ascending(q) ==
    \A i \in 1..(Len(q) - 1) : ~StrLess(SortKey(q[i + 1]), SortKey(q[i]))

\* Elements of a with equal keys come in the same order in b: the j-th
\* element of a with some key is the j-th element of b with that key.
KeyOrderKept(a, b) ==
    \A i \in 1..Len(a) :
        LET sameA == SelectSeq(a, LAMBDA x : SortKey(x) = SortKey(a[i]))
            sameB == SelectSeq(b, LAMBDA x : SortKey(x) = SortKey(a[i]))
        IN  sameA = sameB

\* A sort was made of a document with a list of records.
Sorted == fnOut.op = "sort" /\ ~fnOut.raised /\ HasKey(fnDoc, "files") /\ fnDoc["files"].isList

\* C24: sort_json_data permutes the records into ascending order of the
\* lower-cased path, records of equal key keeping their order, so that a
\* sorted list is returned as it is; sorting the result again changes
\* nothing, and check_if_needs_sort says that the result needs no sort.
C24_SortStableIdempotent ==
    /\ Sorted =>
         /\ SameMultiset(FilesOf(fnDoc), FilesOf(fnOut.result))
         /\ Ascending(FilesOf(fnOut.result))
         /\ KeyOrderKept(FilesOf(fnDoc), FilesOf(fnOut.result))
         /\ Ascending(FilesOf(fnDoc)) => fnOut.result = fnDoc
    /\ fnOut.op = "sort twice" =>
         ~fnOut.raised /\ fnOut.result.twice = fnOut.result.once
    /\ fnOut.op = "check" =>
         /\ ~fnOut.raised /\ ~fnOut.result.needs
         /\ fnOut.result.data = fnOut.result.once

\* C24, its case: a list out of order, with two records whose paths differ
\* in case only, has been sorted and sorted again.
C24_Witness ==
    /\ fnOut.op = "sort twice"
    /\ HasKey(fnDoc, "files")
    /\ Len(FilesOf(fnDoc)) = 3
    /\ \A i \in 1..3 : HasPath(FilesOf(fnDoc)[i])
    /\ FilesOf(fnDoc)[1]["path"] = <<"B">>
    /\ FilesOf(fnDoc)[2]["path"] = <<"A">>
    /\ FilesOf(fnDoc)[3]["path"] = <<"a">>
    /\ FilesOf(fnOut.result.twice)[1]["path"] = <<"A">>
    /\ FilesOf(fnOut.result.twice)[2]["path"] = <<"a">>

(***************************************************************************)
(* The directory index (DirFilterMenu._build_dir_tree), built from the     *)
(* files of the store.  The dict is a function from its keys to sets.      *)
(***************************************************************************)

\* f.get('path', '').split('/')
PathSplit(f) == Split(IF HasKey(f, "path") THEN f["path"] ELSE << >>, "/")

\* third of any path with a '/': parts[1], a file name included
ThirdOfAny(parts) == parts[2]

\* third = parts[1] if len(parts) > 2 else None; None is the empty text here,
\* 'if third' refusing both
ThirdOf(parts) == IF Len(parts) > 2 THEN parts[2] ELSE << >>

\* The files that pass 'if len(parts) > 1'
WithDir(fs) == {i \in 1..Len(fs) : Len(PathSplit(fs[i])) > 1}

\* _build_dir_tree with self.files = fs
build_dir_tree(fs) ==
    [second \in {PathSplit(fs[i])[1] : i \in WithDir(fs)} |->
        {ThirdOf(PathSplit(fs[i])) :
            i \in {j \in WithDir(fs) : /\ PathSplit(fs[j])[1] = second
                                        /\ ThirdOf(PathSplit(fs[j])) # << >>}}]

\* Longest file list given to the directory index
MaxTree == 3

\* Records of the store: a file at the top, files one and two directories
\* down, in two first directories, and a path with an empty segment.
TreeRecords ==
    { Rec(<<"f">>, IntV(1), <<"E">>),
      Rec(<<"a", "/", "f">>, IntV(1), <<"E">>),
      Rec(<<"a", "/", "b", "/", "g">>, IntV(1), <<"E">>),
      Rec(<<"a", "/", "c", "/", "g">>, IntV(1), <<"E">>),
      Rec(<<"d", "/", "b", "/", "g">>, IntV(1), <<"E">>),
      Rec(<<"d", "/", "/", "g">>, IntV(1), <<"E">>) }

InitTree ==
    /\ FnOnly
    /\ \E fs \in ListsUpTo(TreeRecords, MaxTree) :
         fnDoc = [files |-> ListV(fs), totalFilesCount |-> Len(fs), totalSize |-> Len(fs)]
    /\ fnOut = NoFnCall

\* DirFilterMenu(self.app.json_data.files)
BuildDirTree ==
    /\ fnOut.op = "none"
    /\ fnOut' = [op |-> "tree", raised |-> FALSE, result |-> build_dir_tree(fnDoc["files"].items)]
    /\ FnRest

NextTree == BuildDirTree

SpecTree == InitTree /\ [][NextTree]_vars

(***************************************************************************)
(* Claims about the directory index.                                       *)
(***************************************************************************)

\* The '/'-separated segments of the paths of the indexed files.
IndexedParts == {PathSplit(FilesOf(fnDoc)[i]) : i \in 1..Len(FilesOf(fnDoc))}

\* The keys are the first segments of the paths with a '/'.
KeysAreFirstSegments ==
    DOMAIN fnOut.result = {parts[1] : parts \in {q \in IndexedParts : Len(q) >= 2}}

\* C25 as stated: every path of two segments or more gives its second
\* segment to the set of its first segment, and the sets hold nothing else.
C25_IndexOfSecondSegments ==
    fnOut.op = "tree" =>
        /\ KeysAreFirstSegments
        /\ \A s \in DOMAIN fnOut.result :
             fnOut.result[s] = {parts[2] : parts \in {q \in IndexedParts : Len(q) >= 2 /\ q[1] = s}}

\* C25: every path with a '/' gives a key, its first segment; the set of a
\* key holds the non-empty second segments of the paths of three segments or
\* more, the second segment being a directory then, and nothing else.
C25_IndexOfSecondDirectories ==
    fnOut.op = "tree" =>
        /\ KeysAreFirstSegments
        /\ \A s \in DOMAIN fnOut.result :
             fnOut.result[s] = {parts[2] : parts \in {q \in IndexedParts :
                                     Len(q) >= 3 /\ q[1] = s /\ q[2] # << >>}}

\* C25, its case: a/f and a/b/g are indexed; a is a key and holds b alone.
C25_Witness ==
    /\ fnOut.op = "tree"
    /\ <<<<"a">>, <<"f">>>> \in IndexedParts
    /\ <<<<"a">>, <<"b">>, <<"g">>>> \in IndexedParts
    /\ <<<<"f">>>> \in IndexedParts
    /\ DOMAIN fnOut.result = {<<"a">>}
    /\ fnOut.result[<<"a">>] = {<<"b">>}

(***************************************************************************)
(* Further claims about the link codec (checked under SpecLink).           *)
(***************************************************************************)

\* The size of every record is written with digits only.
AllDigitSizes(fs) == \A i \in 1..Len(fs) : IsDigit(SizeText(fs[i].size))

\* C28: the link generated for a non-empty list of records with all-digit
\* sizes is accepted by validate_link_format, in either form.
C28_GeneratedLinkValidates ==
    ( /\ lkOut.src = "files" /\ {"generate", "validate"} \subseteq lkOut.done
      /\ lkFiles # << >> /\ AllDigitSizes(lkFiles) )
        => lkOut.valid.ok

(***************************************************************************)
(* Further claims about the validator (checked under SpecValid).           *)
(***************************************************************************)

\* C29: validation is idempotent.  A document the validator accepted, in the
\* state the validator left it in, is accepted again and left as it is; a
\* document the validator rejected was not modified.
C29_ValidationIdempotent ==
    [][ (~vdOut.called /\ vdOut'.called) =>
            IF vdOut'.ok
            THEN /\ is_valid_123_json(vdDoc').ok
                 /\ is_valid_123_json(vdDoc').doc = vdDoc'
            ELSE vdDoc' = vdDoc ]_vars

\* A legacy document has been converted: its "list" is gone and its first
\* record carries the name and the hash of the legacy entry.
C29_Witness ==
    /\ vdOut.called /\ vdOut.ok
    /\ ~HasKey(vdDoc, "list") /\ ~HasMarker(vdDoc)
    /\ HasKey(vdDoc, "files") /\ vdDoc["files"].isList
    /\ Len(vdDoc["files"].items) > 0
    /\ vdDoc["files"].items[1]["path"] = <<"n">>
    /\ vdDoc["files"].items[1]["etag"] = <<"H">>

(***************************************************************************)
(* Further claims about the splitter (checked under SpecSplit).            *)
(***************************************************************************)

\* The directory part of a record of the input: the non-empty segments of
\* commonPath + path without the last one, the file name.
DirectoryOf(f) ==
    LET parts == PathParts(common_path(spDoc) \o f["path"])
    IN  IF parts = << >> THEN << >> ELSE SubSeq(parts, 1, Len(parts) - 1)

\* The group a record belongs to: the reserved one when its directory has
\* fewer segments than the level, else the one named by the first segments.
GroupOf(f) ==
    IF Len(DirectoryOf(f)) < spArg.n
    THEN [reserved |-> TRUE, name |-> << >>]
    ELSE [reserved |-> FALSE, name |-> JoinParts(SubSeq(DirectoryOf(f), 1, spArg.n))]

RECURSIVE FirstEncounters(_, _)
\* The groups of the records fs in the order of their first record.
FirstEncounters(fs, seen) ==
    IF fs = << >> THEN << >>
    ELSE IF GroupOf(Head(fs)) \in seen THEN FirstEncounters(Tail(fs), seen)
    ELSE <<GroupOf(Head(fs))>> \o FirstEncounters(Tail(fs), seen \cup {GroupOf(Head(fs))})

\* The records of the input that belong to group g, in their order.
MembersOf(g) == SelectSeq(SplitInput, LAMBDA f : GroupOf(f) = g)

\* Chunk c holds the records fs, whatever their paths have become.
HoldsRecords(c, fs) ==
    /\ Len(c["files"].items) = Len(fs)
    /\ \A i \in 1..Len(fs) :
         /\ c["files"].items[i]["etag"] = fs[i]["etag"]
         /\ c["files"].items[i]["size"] = fs[i]["size"]

\* C26: split_json_by_folder returns one chunk for each group, in the order
\* in which the groups were first met; the chunk of the reserved group has
\* the commonPath of the input and the records as they were, the chunk of a
\* named group has the name followed by '/' as its commonPath.
C26_FolderGroups ==
    (spOut.op = "folder" /\ ~spOut.raised) =>
        LET groups == FirstEncounters(SplitInput, {})
        IN  /\ Len(spOut.chunks) = Len(groups)
            /\ \A j \in 1..Len(groups) :
                 j <= Len(spOut.chunks) =>
                    IF groups[j].reserved
                    THEN /\ spOut.chunks[j]["commonPath"] = common_path(spDoc)
                         /\ spOut.chunks[j]["files"].items = MembersOf(groups[j])
                    ELSE /\ spOut.chunks[j]["commonPath"] = groups[j].name \o <<"/">>
                         /\ HoldsRecords(spOut.chunks[j], MembersOf(groups[j]))

RECURSIVE SizeSum(_)
\* The sum of the sizes of the records fs, each read as a number.
SizeSum(fs) ==
    IF fs = << >> THEN 0 ELSE IntOf(Head(fs)["size"]) + SizeSum(Tail(fs))

RECURSIVE CountSum(_)
\* The sum of the totalFilesCount of the chunks.
CountSum(chunks) ==
    IF chunks = << >> THEN 0
    ELSE Head(chunks)["totalFilesCount"] + CountSum(Tail(chunks))

RECURSIVE TotalSum(_)
\* The sum of the totalSize of the chunks.
TotalSum(chunks) ==
    IF chunks = << >> THEN 0
    ELSE Head(chunks)["totalSize"] + TotalSum(Tail(chunks))

\* A split by count or by folder has returned its chunks.
SplitDone == spOut.op \in {"count", "folder"} /\ ~spOut.raised

\* C27: every chunk of split_json_by_count and of split_json_by_folder has
\* totalFilesCount equal to the number of its files and totalSize equal to
\* the sum of their sizes, and the totalFilesCount of the chunks add up to
\* the number of files of the input, whatever the totals of the input say.
C27_ChunkTotals ==
    SplitDone =>
        /\ \A j \in 1..Len(spOut.chunks) :
             /\ spOut.chunks[j]["totalFilesCount"] = Len(spOut.chunks[j]["files"].items)
             /\ spOut.chunks[j]["totalSize"] = SizeSum(spOut.chunks[j]["files"].items)
        /\ CountSum(spOut.chunks) = Len(SplitInput)

\* C27, its case: a split by folder has returned two chunks or more, one
\* with a size kept as a string, of a document whose totalSize is not the
\* sum of the sizes of its files.
C27_Witness ==
    /\ spOut.op = "folder" /\ ~spOut.raised
    /\ Len(spOut.chunks) >= 2
    /\ \E i \in 1..Len(SplitInput) : SplitInput[i]["size"].t = "str"
    /\ spDoc["totalSize"] # SizeSum(SplitInput)
    /\ TotalSum(spOut.chunks) = SizeSum(SplitInput)

====
